---- MODULE Spec2Model ----
(***************************************************************************)
(* Dragon-fruit bloom tracker: the AsyncStorage-backed event store          *)
(* (utils/storage.ts), the bloom, abortion and harvest entry workflows      *)
(* (app/(tabs)/bloom.tsx, abortion.tsx, harvest.tsx), the dashboard         *)
(* (index.tsx), the analytics screen (analytics.tsx), the settings save and *)
(* the farm location catalog (utils/farmLocations.ts).                     *)
(*                                                                         *)
(* Conventions.                                                            *)
(*  - A stored item is [state, entries]: state "null" (key absent), "json"  *)
(*    (a JSON array written by JSON.stringify) or "corrupt" (a value that   *)
(*    JSON.parse rejects).  JSON.stringify/JSON.parse of the records        *)
(*    modelled here (integers and strings only) give the same records back. *)
(*  - Calendar dates 'YYYY-MM-DD' are day numbers; identifiers are the      *)
(*    clock value they were printed from (toString is injective).           *)
(*  - Text fields are sequences of one-character strings.                   *)
(*  - An optional value (selectedBloom | null) is a sequence of length <= 1.*)
(***************************************************************************)
EXTENDS Integers, Sequences, FiniteSets, TLC

\* ------------------------------------------------------------------ bounds
MaxBlooms == 2
MaxAbortions == 2
MaxHarvests == 2
MaxClock == 4
Today == 2

\* ------------------------------------------------------------------ inputs
Outcomes == {"ok", "reject"}
CountTexts == {<<"x">>, <<"0">>, <<"-", "1">>, <<"1">>, <<"2">>, <<"2", "x">>}
MaturityTexts == {<<"1">>, <<"0">>}
BloomDates == {1}
LocationInputs == {"", "N11A"}

\* ------------------------------------------------------------------- state
VARIABLE
  app_settings        \* AsyncStorage item under SETTINGS_KEY (entries holds the object)

\* ---------------------------------------------------------------- helpers
RECURSIVE SumSeq(_)
SumSeq(s) == IF s = <<>> THEN 0 ELSE Head(s) + SumSeq(Tail(s))

MapCount(s, field) == [i \in 1..Len(s) |-> s[i][field]]

Max0(n) == IF n > 0 THEN n ELSE 0

NoIo == [read |-> "none", write |-> "none", writes |-> 0]

\* ------------------------------------------------------- JavaScript parseInt
DigitValue(c) ==
  CASE c = "0" -> 0 [] c = "1" -> 1 [] c = "2" -> 2 [] c = "3" -> 3
    [] c = "4" -> 4 [] c = "5" -> 5 [] c = "6" -> 6 [] c = "7" -> 7
    [] c = "8" -> 8 [] c = "9" -> 9 [] OTHER -> -1

RECURSIVE DigitPrefix(_)
DigitPrefix(t) ==
  IF t = <<>> \/ DigitValue(Head(t)) < 0 THEN <<>>
  ELSE <<DigitValue(Head(t))>> \o DigitPrefix(Tail(t))

RECURSIVE DigitsToNumber(_, _)
DigitsToNumber(ds, acc) ==
  IF ds = <<>> THEN acc ELSE DigitsToNumber(Tail(ds), acc * 10 + Head(ds))

parseInt(t) ==
  LET signed == t # <<>> /\ Head(t) \in {"-", "+"}
      body == IF signed THEN Tail(t) ELSE t
      ds == DigitPrefix(body)
      sign == IF signed /\ Head(t) = "-" THEN -1 ELSE 1
  IN IF ds = <<>> THEN [nan |-> TRUE, n |-> 0]
     ELSE [nan |-> FALSE, n |-> sign * DigitsToNumber(ds, 0)]

isNaN(v) == v.nan

\* ------------------------------------------------------------ utils/storage
NullItem == [state |-> "null", entries |-> <<>>]
JsonItem(entries) == [state |-> "json", entries |-> entries]

\* getBloomEntries without its catch: a rejected read or an undecodable value
\* propagates
getBloomEntries_noCatch(item, r) ==
  IF r = "ok" /\ item.state # "corrupt"
    THEN [threw |-> FALSE, value |-> IF item.state = "json" THEN item.entries ELSE <<>>]
    ELSE [threw |-> TRUE, value |-> <<>>]

getBloomEntries(item, r) ==
  [threw |-> FALSE,
   value |-> IF r = "ok" /\ item.state = "json" THEN item.entries ELSE <<>>]

getAbortionEntries(item, r) ==
  [threw |-> FALSE,
   value |-> IF r = "ok" /\ item.state = "json" THEN item.entries ELSE <<>>]

getHarvestEntries(item, r) ==
  [threw |-> FALSE,
   value |-> IF r = "ok" /\ item.state = "json" THEN item.entries ELSE <<>>]

\* A save is two awaited steps: the read of the existing entries
\* (getXEntries) and the AsyncStorage.setItem of the extended array.  The
\* second step is given what the first returned.
\* a write that appends to what is stored at write time, not to what was read
saveBloomEntryWrite_appendsToStored(item, existingEntries, entry, w) ==
  LET updatedEntries == Append(item.entries, entry)
  IN IF w = "ok" THEN [threw |-> FALSE, item |-> JsonItem(updatedEntries), writes |-> 1]
     ELSE [threw |-> TRUE, item |-> item, writes |-> 1]

saveBloomEntryWrite(item, existingEntries, entry, w) ==
  LET updatedEntries == Append(existingEntries, entry)
  IN IF w = "ok" THEN [threw |-> FALSE, item |-> JsonItem(updatedEntries), writes |-> 1]
     ELSE [threw |-> TRUE, item |-> item, writes |-> 1]

saveBloomEntry(item, entry, r, w) ==
  LET existingEntries == getBloomEntries(item, r)
  IN IF existingEntries.threw THEN [threw |-> TRUE, item |-> item, writes |-> 0]
     ELSE saveBloomEntryWrite(item, existingEntries.value, entry, w)

saveAbortionEntryWrite(item, existingEntries, entry, w) ==
  LET updatedEntries == Append(existingEntries, entry)
  IN IF w = "ok" THEN [threw |-> FALSE, item |-> JsonItem(updatedEntries), writes |-> 1]
     ELSE [threw |-> TRUE, item |-> item, writes |-> 1]

saveAbortionEntry(item, entry, r, w) ==
  LET existingEntries == getAbortionEntries(item, r)
  IN IF existingEntries.threw THEN [threw |-> TRUE, item |-> item, writes |-> 0]
     ELSE saveAbortionEntryWrite(item, existingEntries.value, entry, w)

\* a catch that logs the rejected setItem and does not rethrow
saveHarvestEntryWrite_swallows(item, existingEntries, entry, w) ==
  LET updatedEntries == Append(existingEntries, entry)
  IN IF w = "ok" THEN [threw |-> FALSE, item |-> JsonItem(updatedEntries), writes |-> 1]
     ELSE [threw |-> FALSE, item |-> item, writes |-> 1]

saveHarvestEntryWrite(item, existingEntries, entry, w) ==
  LET updatedEntries == Append(existingEntries, entry)
  IN IF w = "ok" THEN [threw |-> FALSE, item |-> JsonItem(updatedEntries), writes |-> 1]
     ELSE [threw |-> TRUE, item |-> item, writes |-> 1]

saveHarvestEntry(item, entry, r, w) ==
  LET existingEntries == getHarvestEntries(item, r)
  IN IF existingEntries.threw THEN [threw |-> TRUE, item |-> item, writes |-> 0]
     ELSE saveHarvestEntryWrite(item, existingEntries.value, entry, w)

\* Settings: one JSON object under SETTINGS_KEY (the item's entries holds it)
defaultSettings ==
  [defaultVariety |-> "Red", maturityPeriodDays |-> 26, enableNotifications |-> TRUE]

saveSettings(item, settings, w) ==
  IF w = "ok" THEN [threw |-> FALSE, item |-> JsonItem(<<settings>>), writes |-> 1]
  ELSE [threw |-> TRUE, item |-> item, writes |-> 1]

\* { ...defaultSettings, ...JSON.parse(data) }
spreadOver(defaults, stored) ==
  [f \in DOMAIN defaults \cup DOMAIN stored |->
     IF f \in DOMAIN stored THEN stored[f] ELSE defaults[f]]

getSettings(item, r) ==
  IF r = "ok" /\ item.state = "json" THEN spreadOver(defaultSettings, item.entries[1])
  ELSE defaultSettings

\* The try/catch around the awaited save in the three handleSave functions:
\* Alert 'Success' after the save returned, Alert 'Error' in the catch.
saveAlert(screen, threw) ==
  [screen |-> screen, kind |-> IF threw THEN "error" ELSE "success"]

\* ----------------------------------------------------------- utils/dateUtils
formatDate(d) == d
formatDisplayDate(d) == d
addDays(d, n) == d + n
daysBetween(a, b) == IF a <= b THEN b - a ELSE a - b

\* ------------------------------------------------------- yield computations
totalAbortedOf(bloom, abortionEntries) ==
  SumSeq(MapCount(SelectSeq(abortionEntries, LAMBDA a : a.bloomEntryId = bloom.id),
                  "abortedCount"))

totalHarvestedOf(bloom, harvestEntries) ==
  SumSeq(MapCount(SelectSeq(harvestEntries, LAMBDA h : h.bloomEntryId = bloom.id),
                  "harvestedCount"))

\* a forecast whose days-until-harvest is the unsigned day difference
forecastOf_unsignedDays(bloom, abortionEntries, harvestEntries, today) ==
  LET expectedHarvestDate == formatDate(addDays(bloom.date, bloom.maturityPeriodDays))
      totalAborted == totalAbortedOf(bloom, abortionEntries)
      totalHarvested == totalHarvestedOf(bloom, harvestEntries)
  IN [id |-> bloom.id,
      bloomEntry |-> bloom,
      expectedHarvestDate |-> expectedHarvestDate,
      expectedCount |-> bloom.count,
      totalAborted |-> totalAborted,
      remainingCount |-> bloom.count - totalAborted - totalHarvested,
      isReadyToday |-> expectedHarvestDate = today,
      daysUntilHarvest |-> daysBetween(today, expectedHarvestDate)]

\* a forecast that takes the maturity period from the stored settings
forecastOf_settingsMaturity(bloom, abortionEntries, harvestEntries, today) ==
  LET maturityPeriodDays == IF app_settings.state = "json"
                              THEN getSettings(app_settings, "ok").maturityPeriodDays
                              ELSE bloom.maturityPeriodDays
      expectedHarvestDate == formatDate(addDays(bloom.date, maturityPeriodDays))
      totalAborted == totalAbortedOf(bloom, abortionEntries)
      totalHarvested == totalHarvestedOf(bloom, harvestEntries)
      daysUntilHarvest == daysBetween(today, expectedHarvestDate)
  IN [id |-> bloom.id,
      bloomEntry |-> bloom,
      expectedHarvestDate |-> expectedHarvestDate,
      expectedCount |-> bloom.count,
      totalAborted |-> totalAborted,
      remainingCount |-> bloom.count - totalAborted - totalHarvested,
      isReadyToday |-> expectedHarvestDate = today,
      daysUntilHarvest |-> IF expectedHarvestDate >= today THEN daysUntilHarvest
                           ELSE -daysUntilHarvest]

\* harvest.tsx: the object built for one bloom by the .map() of loadHarvestData
forecastOf(bloom, abortionEntries, harvestEntries, today) ==
  LET expectedHarvestDate == formatDate(addDays(bloom.date, bloom.maturityPeriodDays))
      totalAborted == totalAbortedOf(bloom, abortionEntries)
      totalHarvested == totalHarvestedOf(bloom, harvestEntries)
      remainingCount == bloom.count - totalAborted - totalHarvested
      daysUntilHarvest == daysBetween(today, expectedHarvestDate)
      isReadyToday == expectedHarvestDate = today
  IN [id |-> bloom.id,
      bloomEntry |-> bloom,
      expectedHarvestDate |-> expectedHarvestDate,
      expectedCount |-> bloom.count,
      totalAborted |-> totalAborted,
      remainingCount |-> remainingCount,
      isReadyToday |-> isReadyToday,
      daysUntilHarvest |-> IF expectedHarvestDate >= today THEN daysUntilHarvest
                           ELSE -daysUntilHarvest]

\* a filter that keeps the blooms with nothing left
forecastFilter_keepsZero(forecast) == forecast.remainingCount >= 0

forecastFilter(forecast) == forecast.remainingCount > 0

\* a comparator that orders by days until harvest alone
forecastCompare_daysOnly(a, b) == a.daysUntilHarvest - b.daysUntilHarvest

forecastCompare(a, b) ==
  IF a.isReadyToday /\ ~b.isReadyToday THEN -1
  ELSE IF ~a.isReadyToday /\ b.isReadyToday THEN 1
  ELSE a.daysUntilHarvest - b.daysUntilHarvest

\* an insertion that places an entry before the entries it compares equal to
RECURSIVE sortInsert_beforeEquals(_, _)
sortInsert_beforeEquals(x, s) ==
  IF s = <<>> THEN <<x>>
  ELSE IF forecastCompare(x, Head(s)) <= 0 THEN <<x>> \o s
  ELSE <<Head(s)>> \o sortInsert_beforeEquals(x, Tail(s))

\* Array.prototype.sort: stable, ordered by the comparator
RECURSIVE sortInsert(_, _)
sortInsert(x, s) ==
  IF s = <<>> THEN <<x>>
  ELSE IF forecastCompare(x, Head(s)) < 0 THEN <<x>> \o s
  ELSE <<Head(s)>> \o sortInsert(x, Tail(s))

RECURSIVE forecastSort(_)
forecastSort(s) ==
  IF s = <<>> THEN <<>>
  ELSE sortInsert(s[Len(s)], forecastSort(SubSeq(s, 1, Len(s) - 1)))

computeForecasts(bloomEntries, abortionEntries, harvestEntries, today) ==
  forecastSort(SelectSeq(
    [i \in 1..Len(bloomEntries) |->
       forecastOf(bloomEntries[i], abortionEntries, harvestEntries, today)],
    forecastFilter))

\* abortion.tsx: the list built by loadBloomEntries
bloomWithRemaining(bloom, abortions) ==
  [id |-> bloom.id, date |-> bloom.date, location |-> bloom.location,
   count |-> bloom.count, maturityPeriodDays |-> bloom.maturityPeriodDays,
   remainingCount |-> bloom.count - totalAbortedOf(bloom, abortions)]

bloomsWithRemaining(blooms, abortions) ==
  SelectSeq([i \in 1..Len(blooms) |-> bloomWithRemaining(blooms[i], abortions)],
            LAMBDA b : b.remainingCount > 0)

findForecast(forecasts, id) == SelectSeq(forecasts, LAMBDA f : f.id = id)

\* ------------------------------------------------- storage calls in flight
Slots == {"a", "b"}
SaveOps == {"saveBloomEntry", "saveAbortionEntry", "saveHarvestEntry"}
GetOps == {"getBloomEntries", "getAbortionEntries", "getHarvestEntries"}

IdleCall ==
  [pc |-> "idle", op |-> "none", entry |-> <<>>, existingEntries |-> <<>>,
   read |-> "none", write |-> "none", writes |-> 0,
   value |-> <<>>, alone |-> TRUE, raced |-> FALSE]

KeyOf(op) ==
  CASE op \in {"saveBloomEntry", "getBloomEntries"} -> "bloom_entries"
    [] op \in {"saveAbortionEntry", "getAbortionEntries"} -> "abortion_entries"
    [] op \in {"saveHarvestEntry", "getHarvestEntries"} -> "harvest_entries"
    [] OTHER -> "none"

ScreenOf(op) ==
  CASE op = "saveBloomEntry" -> "bloom"
    [] op = "saveAbortionEntry" -> "abortion"
    [] op = "saveHarvestEntry" -> "harvest"
    [] OTHER -> "none"

readEntries(op, item, r) ==
  CASE KeyOf(op) = "bloom_entries" -> getBloomEntries(item, r)
    [] KeyOf(op) = "abortion_entries" -> getAbortionEntries(item, r)
    [] KeyOf(op) = "harvest_entries" -> getHarvestEntries(item, r)

writeEntries(op, item, existingEntries, entry, w) ==
  CASE op = "saveBloomEntry" -> saveBloomEntryWrite(item, existingEntries, entry, w)
    [] op = "saveAbortionEntry" -> saveAbortionEntryWrite(item, existingEntries, entry, w)
    [] op = "saveHarvestEntry" -> saveHarvestEntryWrite(item, existingEntries, entry, w)

\* ------------------------------------------------------------------- state
VARIABLES
  bloom_entries,      \* AsyncStorage item under BLOOM_ENTRIES_KEY
  abortion_entries,   \* AsyncStorage item under ABORTION_ENTRIES_KEY
  harvest_entries,    \* AsyncStorage item under HARVEST_ENTRIES_KEY
  now,                \* Date.now() as the next submission reads it
  tab,                \* the focused tab of the Tabs navigator
  mounted,            \* tabs whose screen component has been mounted
  alert,              \* the Alert on display: [screen, kind]
  bloomEntries,       \* AbortionPage: blooms with remainingCount
  abSelectedBloom,    \* AbortionPage: selectedBloom
  harvestForecasts,   \* HarvestPage: harvestForecasts
  hvSelectedBloom,    \* HarvestPage: selectedBloom
  showHarvestForm,    \* HarvestPage: showHarvestForm
  io,                 \* what the last step asked of AsyncStorage and got
  calls,              \* storage calls in flight (storage-level runs only)
  stats,              \* HomePage: stats
  upcomingHarvests,   \* HomePage: upcomingHarvests
  abortionByLocation, \* AnalyticsPage: abortionByLocation
  abortionByVariety,  \* AnalyticsPage: abortionByVariety
  harvestData,        \* AnalyticsPage: harvestData
  timeRange,          \* AnalyticsPage: timeRange
  analyticsLoading,   \* AnalyticsPage: loading
  locationList,       \* the last catalog listing asked for and what it returned
  locationFound       \* the last getLocationById call and what it returned

vars == <<bloom_entries, abortion_entries, harvest_entries, now, tab, mounted, alert,
          bloomEntries, abSelectedBloom, harvestForecasts, hvSelectedBloom,
          showHarvestForm, io, calls, app_settings, stats, upcomingHarvests,
          abortionByLocation, abortionByVariety, harvestData, timeRange,
          analyticsLoading, locationList, locationFound>>

storeVars == <<bloom_entries, abortion_entries, harvest_entries>>
abortionPageVars == <<bloomEntries, abSelectedBloom>>
harvestPageVars == <<harvestForecasts, hvSelectedBloom, showHarvestForm>>
dashboardVars == <<stats, upcomingHarvests>>
analyticsVars == <<abortionByLocation, abortionByVariety, harvestData, timeRange,
                   analyticsLoading>>
locationVars == <<locationList, locationFound>>
otherPagesVars == <<app_settings, dashboardVars, analyticsVars, locationVars>>

\* index.tsx: the initial value of stats (readyToHarvestToday is not set)
InitialStats ==
  [todayBlooms |-> 0, todayAbortions |-> 0, upcomingHarvests |-> 0,
   totalActiveBlooms |-> 0, readyToHarvestToday |-> <<>>]

Tabs == {"index", "bloom", "abortion", "harvest"}
NoAlert == [screen |-> "none", kind |-> "none"]

Init ==
  /\ bloom_entries = NullItem
  /\ abortion_entries = NullItem
  /\ harvest_entries = NullItem
  /\ now = 0
  /\ tab = "index"
  /\ mounted = {"index"}
  /\ alert = NoAlert
  /\ bloomEntries = <<>>
  /\ abSelectedBloom = <<>>
  /\ harvestForecasts = <<>>
  /\ hvSelectedBloom = <<>>
  /\ showHarvestForm = FALSE
  /\ io = NoIo
  /\ calls = [s \in Slots |-> IdleCall]
  /\ app_settings = NullItem
  /\ stats = InitialStats
  /\ upcomingHarvests = <<>>
  /\ abortionByLocation = <<>>
  /\ abortionByVariety = <<>>
  /\ harvestData = <<>>
  /\ timeRange = <<"7">>
  /\ analyticsLoading = TRUE
  /\ locationList = <<>>
  /\ locationFound = <<>>

\* ------------------------------------------------------------ page loaders
\* abortion.tsx loadBloomEntries: the value handed to setBloomEntries, or the
\* previous list when the try block throws
loadBloomEntries(rb, ra) ==
  LET blooms == getBloomEntries(bloom_entries, rb)
      abortions == getAbortionEntries(abortion_entries, ra)
  IN IF blooms.threw \/ abortions.threw THEN bloomEntries
     ELSE bloomsWithRemaining(blooms.value, abortions.value)

\* harvest.tsx loadHarvestData: the value handed to setHarvestForecasts, or
\* the previous list when the try block throws
loadHarvestData(rb, ra, rh) ==
  LET blooms == getBloomEntries(bloom_entries, rb)
      abortions == getAbortionEntries(abortion_entries, ra)
      harvests == getHarvestEntries(harvest_entries, rh)
  IN IF blooms.threw \/ abortions.threw \/ harvests.threw THEN harvestForecasts
     ELSE computeForecasts(blooms.value, abortions.value, harvests.value, Today)

\* ----------------------------------------------------------------- actions
\* Tabs navigator: focusing a tab mounts its screen the first time, which
\* runs the screen's useEffect(() => load(), []) once.
SwitchTab(t, rb, ra, rh) ==
  /\ alert.kind = "none"
  /\ t # tab
  /\ tab' = t
  /\ mounted' = mounted \cup {t}
  /\ IF t = "abortion" /\ t \notin mounted
       THEN bloomEntries' = loadBloomEntries(rb, ra)
       ELSE bloomEntries' = bloomEntries
  /\ IF t = "harvest" /\ t \notin mounted
       THEN harvestForecasts' = loadHarvestData(rb, ra, rh)
       ELSE harvestForecasts' = harvestForecasts
  /\ io' = NoIo
  /\ UNCHANGED <<storeVars, now, alert, abSelectedBloom, hvSelectedBloom,
                 showHarvestForm, calls, otherPagesVars>>

DismissAlert ==
  /\ alert.kind \in {"validation", "error"} \/ alert.screen = "settings"
  /\ alert' = NoAlert
  /\ io' = NoIo
  /\ UNCHANGED <<storeVars, now, tab, mounted, abortionPageVars, harvestPageVars, calls, otherPagesVars>>

\* 'Go to Dashboard' of any success alert: router.push('/')
GoToDashboard ==
  /\ alert.kind = "success"
  /\ alert' = NoAlert
  /\ tab' = "index"
  /\ io' = NoIo
  /\ UNCHANGED <<storeVars, now, mounted, abortionPageVars, harvestPageVars, calls, otherPagesVars>>

\* bloom.tsx handleSave; elapsed is the time by which Date.now() has moved
\* on when the next submission reads it
BloomHandleSave(location, count, maturityPeriodDays, date, elapsed, r, w) ==
  /\ tab = "bloom" /\ alert.kind = "none"
  /\ now < MaxClock
  /\ bloom_entries.state # "json" \/ Len(bloom_entries.entries) < MaxBlooms
  /\ LET countNum == parseInt(count)
         maturityDays == parseInt(maturityPeriodDays)
         entry == [id |-> now, date |-> date, location |-> location,
                   count |-> countNum.n, maturityPeriodDays |-> maturityDays.n]
         res == saveBloomEntry(bloom_entries, entry, r, w)
     IN IF \/ location = ""
           \/ isNaN(countNum) \/ countNum.n <= 0
           \/ isNaN(maturityDays) \/ maturityDays.n <= 0
          THEN /\ alert' = [screen |-> "bloom", kind |-> "validation"]
               /\ io' = NoIo
               /\ UNCHANGED <<bloom_entries, now>>
          ELSE /\ bloom_entries' = res.item
               /\ now' = now + elapsed
               /\ alert' = saveAlert("bloom", res.threw)
               /\ io' = [NoIo EXCEPT !.write = w, !.writes = res.writes]
  /\ UNCHANGED <<abortion_entries, harvest_entries, tab, mounted,
                 abortionPageVars, harvestPageVars, calls, otherPagesVars>>

\* bloom.tsx 'Add Another': resets form fields only
BloomAddAnother ==
  /\ alert = [screen |-> "bloom", kind |-> "success"]
  /\ alert' = NoAlert
  /\ io' = NoIo
  /\ UNCHANGED <<storeVars, now, tab, mounted, abortionPageVars, harvestPageVars, calls, otherPagesVars>>

\* abortion.tsx handleSelectBloom, from the rendered list
AbortionSelectBloom(i) ==
  /\ tab = "abortion" /\ alert.kind = "none"
  /\ i \in 1..Len(bloomEntries)
  /\ abSelectedBloom' = <<bloomEntries[i]>>
  /\ io' = NoIo
  /\ UNCHANGED <<storeVars, now, tab, mounted, alert, bloomEntries, harvestPageVars, calls, otherPagesVars>>

\* abortion.tsx handleSave (the button is disabled while nothing is selected)
AbortionHandleSave(abortedCount, elapsed, r, w) ==
  /\ tab = "abortion" /\ alert.kind = "none"
  /\ abSelectedBloom # <<>>
  /\ now < MaxClock
  /\ abortion_entries.state # "json" \/ Len(abortion_entries.entries) < MaxAbortions
  /\ LET selectedBloom == abSelectedBloom[1]
         countNum == parseInt(abortedCount)
         entry == [id |-> now, bloomEntryId |-> selectedBloom.id,
                   abortedCount |-> countNum.n]
         res == saveAbortionEntry(abortion_entries, entry, r, w)
     IN IF \/ isNaN(countNum) \/ countNum.n <= 0
           \/ countNum.n > selectedBloom.remainingCount
          THEN /\ alert' = [screen |-> "abortion", kind |-> "validation"]
               /\ io' = NoIo
               /\ UNCHANGED <<abortion_entries, now>>
          ELSE /\ abortion_entries' = res.item
               /\ now' = now + elapsed
               /\ alert' = saveAlert("abortion", res.threw)
               /\ io' = [NoIo EXCEPT !.write = w, !.writes = res.writes]
  /\ UNCHANGED <<bloom_entries, harvest_entries, tab, mounted,
                 abortionPageVars, harvestPageVars, calls, otherPagesVars>>

\* abortion.tsx 'Add Another': clears the selection and reloads the list
AbortionAddAnother(rb, ra) ==
  /\ alert = [screen |-> "abortion", kind |-> "success"]
  /\ alert' = NoAlert
  /\ abSelectedBloom' = <<>>
  /\ bloomEntries' = loadBloomEntries(rb, ra)
  /\ io' = NoIo
  /\ UNCHANGED <<storeVars, now, tab, mounted, harvestPageVars, calls, otherPagesVars>>

\* harvest.tsx handleSelectBloom, from the rendered forecast cards
HarvestSelectBloom(i) ==
  /\ tab = "harvest" /\ alert.kind = "none"
  /\ ~(showHarvestForm /\ hvSelectedBloom # <<>>)
  /\ i \in 1..Len(harvestForecasts)
  /\ hvSelectedBloom' = <<harvestForecasts[i].bloomEntry>>
  /\ showHarvestForm' = TRUE
  /\ io' = NoIo
  /\ UNCHANGED <<storeVars, now, tab, mounted, alert, abortionPageVars,
                 harvestForecasts, calls, otherPagesVars>>

\* harvest.tsx 'Cancel' of the harvest form
HarvestCancel ==
  /\ tab = "harvest" /\ alert.kind = "none"
  /\ showHarvestForm /\ hvSelectedBloom # <<>>
  /\ showHarvestForm' = FALSE
  /\ hvSelectedBloom' = <<>>
  /\ io' = NoIo
  /\ UNCHANGED <<storeVars, now, tab, mounted, alert, abortionPageVars,
                 harvestForecasts, calls, otherPagesVars>>

\* harvest.tsx handleSaveHarvest (the button exists only in the form view)
HarvestHandleSave(harvestedCount, elapsed, r, w) ==
  /\ tab = "harvest" /\ alert.kind = "none"
  /\ showHarvestForm /\ hvSelectedBloom # <<>>
  /\ now < MaxClock
  /\ harvest_entries.state # "json" \/ Len(harvest_entries.entries) < MaxHarvests
  /\ LET selectedBloom == hvSelectedBloom[1]
         countNum == parseInt(harvestedCount)
         forecast == findForecast(harvestForecasts, selectedBloom.id)
         entry == [id |-> now, bloomEntryId |-> selectedBloom.id,
                   harvestedCount |-> countNum.n]
         res == saveHarvestEntry(harvest_entries, entry, r, w)
     IN IF \/ isNaN(countNum) \/ countNum.n <= 0
           \/ (forecast # <<>> /\ countNum.n > forecast[1].remainingCount)
          THEN /\ alert' = [screen |-> "harvest", kind |-> "validation"]
               /\ io' = NoIo
               /\ UNCHANGED <<harvest_entries, now>>
          ELSE /\ harvest_entries' = res.item
               /\ now' = now + elapsed
               /\ alert' = saveAlert("harvest", res.threw)
               /\ io' = [NoIo EXCEPT !.write = w, !.writes = res.writes]
  /\ UNCHANGED <<bloom_entries, abortion_entries, tab, mounted,
                 abortionPageVars, harvestPageVars, calls, otherPagesVars>>

\* harvest.tsx 'Record Another': leaves the form and reloads the forecasts
HarvestRecordAnother(rb, ra, rh) ==
  /\ alert = [screen |-> "harvest", kind |-> "success"]
  /\ alert' = NoAlert
  /\ hvSelectedBloom' = <<>>
  /\ showHarvestForm' = FALSE
  /\ harvestForecasts' = loadHarvestData(rb, ra, rh)
  /\ io' = NoIo
  /\ UNCHANGED <<storeVars, now, tab, mounted, abortionPageVars, calls, otherPagesVars>>

Next ==
  \/ \E t \in Tabs, rb, ra, rh \in Outcomes : SwitchTab(t, rb, ra, rh)
  \/ DismissAlert
  \/ GoToDashboard
  \/ \E location \in LocationInputs, count \in CountTexts,
        maturityPeriodDays \in MaturityTexts, date \in BloomDates,
        r, w \in Outcomes :
       BloomHandleSave(location, count, maturityPeriodDays, date, 1, r, w)
  \/ BloomAddAnother
  \/ \E i \in 1..MaxBlooms : AbortionSelectBloom(i)
  \/ \E abortedCount \in CountTexts, r, w \in Outcomes :
       AbortionHandleSave(abortedCount, 1, r, w)
  \/ \E rb, ra \in Outcomes : AbortionAddAnother(rb, ra)
  \/ \E i \in 1..MaxBlooms : HarvestSelectBloom(i)
  \/ HarvestCancel
  \/ \E harvestedCount \in CountTexts, r, w \in Outcomes :
       HarvestHandleSave(harvestedCount, 1, r, w)
  \/ \E rb, ra, rh \in Outcomes : HarvestRecordAnother(rb, ra, rh)

Spec == Init /\ [][Next]_vars

\* The bloom and abortion workflows under a millisecond clock: the next
\* submission may read the value of Date.now() that the previous one read
\* (harvest.tsx builds its identifier the same way).  Storage answers every
\* request here; its failures are the subject of Spec.
ElapsedTimes == {0, 1}

NextMillis ==
  \/ \E t \in Tabs, rb, ra, rh \in {"ok"} : SwitchTab(t, rb, ra, rh)
  \/ DismissAlert
  \/ GoToDashboard
  \/ \E location \in LocationInputs, count \in CountTexts,
        maturityPeriodDays \in MaturityTexts, date \in BloomDates,
        elapsed \in ElapsedTimes, r, w \in {"ok"} :
       BloomHandleSave(location, count, maturityPeriodDays, date, elapsed, r, w)
  \/ BloomAddAnother
  \/ \E i \in 1..MaxBlooms : AbortionSelectBloom(i)
  \/ \E abortedCount \in CountTexts, elapsed \in ElapsedTimes, r, w \in {"ok"} :
       AbortionHandleSave(abortedCount, elapsed, r, w)
  \/ \E rb, ra \in {"ok"} : AbortionAddAnother(rb, ra)

SpecMillis == Init /\ [][NextMillis]_vars

\* ======================================================================
\* Storage level: utils/storage.ts under arbitrary callers.  Each slot runs
\* one exported function at a time, one awaited AsyncStorage operation per
\* step, so that two calls interleave as the JavaScript event loop allows.
\* ======================================================================
MaxStored == 2
CorruptItem == [state |-> "corrupt", entries |-> <<>>]

StoreBloomInputs ==
  {[id |-> 0, date |-> 1, location |-> "N11A", count |-> 2, maturityPeriodDays |-> 1],
   [id |-> 1, date |-> 1, location |-> "N11A", count |-> 1, maturityPeriodDays |-> 1]}
StoreAbortionInputs == {[id |-> 1, bloomEntryId |-> 0, abortedCount |-> 1]}
StoreHarvestInputs == {[id |-> 1, bloomEntryId |-> 0, harvestedCount |-> 1]}

EntryInputs(op) ==
  CASE op = "saveBloomEntry" -> StoreBloomInputs
    [] op = "saveAbortionEntry" -> StoreAbortionInputs
    [] op = "saveHarvestEntry" -> StoreHarvestInputs

ItemAt(key) ==
  CASE key = "bloom_entries" -> bloom_entries
    [] key = "abortion_entries" -> abortion_entries
    [] key = "harvest_entries" -> harvest_entries

SavingOn(key) ==
  {o \in Slots : calls[o].op \in SaveOps /\ KeyOf(calls[o].op) = key
                 /\ calls[o].pc \in {"getItem", "setItem"}}

uiVars == <<now, tab, mounted, abortionPageVars, harvestPageVars, io, otherPagesVars>>

InitStore ==
  /\ bloom_entries \in {NullItem, CorruptItem}
  /\ abortion_entries \in {NullItem, CorruptItem}
  /\ harvest_entries \in {NullItem, CorruptItem}
  /\ now = 0
  /\ tab = "index"
  /\ mounted = {"index"}
  /\ alert = NoAlert
  /\ bloomEntries = <<>>
  /\ abSelectedBloom = <<>>
  /\ harvestForecasts = <<>>
  /\ hvSelectedBloom = <<>>
  /\ showHarvestForm = FALSE
  /\ io = NoIo
  /\ calls = [s \in Slots |-> IdleCall]
  /\ app_settings = NullItem
  /\ stats = InitialStats
  /\ upcomingHarvests = <<>>
  /\ abortionByLocation = <<>>
  /\ abortionByVariety = <<>>
  /\ harvestData = <<>>
  /\ timeRange = <<"7">>
  /\ analyticsLoading = TRUE
  /\ locationList = <<>>
  /\ locationFound = <<>>

\* a caller enters saveXEntry(entry)
StoreInvokeSave(s, op, entry) ==
  /\ calls[s].pc = "idle"
  /\ op \in SaveOps /\ entry \in EntryInputs(op)
  /\ Len(ItemAt(KeyOf(op)).entries) + Cardinality(SavingOn(KeyOf(op))) < MaxStored
  /\ calls' = [o \in Slots |->
       IF o = s
         THEN [IdleCall EXCEPT !.pc = "getItem", !.op = op, !.entry = <<entry>>,
                               !.alone = SavingOn(KeyOf(op)) = {}]
       ELSE IF o \in SavingOn(KeyOf(op))
         THEN [calls[o] EXCEPT !.alone = FALSE]
       ELSE calls[o]]
  /\ UNCHANGED <<storeVars, alert, uiVars>>

\* a caller enters getXEntries()
StoreInvokeGet(s, op) ==
  /\ calls[s].pc = "idle"
  /\ op \in GetOps
  /\ calls' = [calls EXCEPT ![s] = [IdleCall EXCEPT !.pc = "getItem", !.op = op]]
  /\ UNCHANGED <<storeVars, alert, uiVars>>

\* await AsyncStorage.getItem(KEY), then JSON.parse, inside getXEntries
StoreGetItem(s, r) ==
  /\ calls[s].pc = "getItem"
  /\ LET c == calls[s]
         got == readEntries(c.op, ItemAt(KeyOf(c.op)), r)
         peers == IF c.op \in SaveOps
                    THEN {o \in SavingOn(KeyOf(c.op)) \ {s} : calls[o].pc = "setItem"}
                    ELSE {}
     IN /\ calls' = [o \in Slots |->
          IF o = s
            THEN IF got.threw THEN [c EXCEPT !.pc = "threw", !.read = r]
                 ELSE IF c.op \in GetOps
                   THEN [c EXCEPT !.pc = "returned", !.read = r, !.value = got.value]
                 ELSE [c EXCEPT !.pc = "setItem", !.existingEntries = got.value,
                                !.raced = peers # {}]
          ELSE IF o \in peers THEN [calls[o] EXCEPT !.raced = TRUE]
          ELSE calls[o]]
        /\ alert' = IF got.threw /\ c.op \in SaveOps
                      THEN saveAlert(ScreenOf(c.op), TRUE) ELSE alert
  /\ UNCHANGED <<storeVars, uiVars>>

\* await AsyncStorage.setItem(KEY, JSON.stringify(updatedEntries)), and the
\* caller's continuation (its Alert) when the save settles
StoreSetItem(s, w) ==
  /\ calls[s].pc = "setItem"
  /\ LET c == calls[s]
         key == KeyOf(c.op)
         res == writeEntries(c.op, ItemAt(key), c.existingEntries, c.entry[1], w)
     IN /\ bloom_entries' = IF key = "bloom_entries" THEN res.item ELSE bloom_entries
        /\ abortion_entries' = IF key = "abortion_entries" THEN res.item
                               ELSE abortion_entries
        /\ harvest_entries' = IF key = "harvest_entries" THEN res.item
                              ELSE harvest_entries
        /\ alert' = saveAlert(ScreenOf(c.op), res.threw)
        /\ calls' = [o \in Slots |->
             IF o = s
               THEN [c EXCEPT !.pc = IF res.threw THEN "threw" ELSE "returned",
                              !.write = w, !.writes = c.writes + res.writes]
             ELSE calls[o]]
  /\ UNCHANGED uiVars

\* the caller has consumed the outcome (and its Alert, if any, is dismissed)
StoreReturn(s) ==
  /\ calls[s].pc \in {"returned", "threw"}
  /\ calls' = [calls EXCEPT ![s] = IdleCall]
  /\ alert' = IF alert.screen = ScreenOf(calls[s].op) THEN NoAlert ELSE alert
  /\ UNCHANGED <<storeVars, uiVars>>

NextStore ==
  \/ \E s \in Slots, op \in SaveOps :
       \E entry \in EntryInputs(op) : StoreInvokeSave(s, op, entry)
  \/ \E s \in Slots, op \in GetOps : StoreInvokeGet(s, op)
  \/ \E s \in Slots, r \in Outcomes : StoreGetItem(s, r)
  \/ \E s \in Slots, w \in Outcomes : StoreSetItem(s, w)
  \/ \E s \in Slots : StoreReturn(s)

SpecStore == InitStore /\ [][NextStore]_vars

\* ======================================================================
\* Forecast level: loadHarvestData of harvest.tsx applied to arbitrary
\* persisted collections (orphaned, over-aborted and over-harvested blooms
\* and repeated bloom ids included).
\* ======================================================================
FcMaxBlooms == 2
FcMaxAbortions == 1
FcMaxHarvests == 1

\* with Today = 2 the expected dates 1, 2, 3 and 4 are overdue, due today and
\* due in one and in two days
FcBloomInputs ==
  {[id |-> i, date |-> d, location |-> "N11A", count |-> 2, maturityPeriodDays |-> m] :
     i \in {1, 2}, d \in {0, 1}, m \in {1, 3}}
FcAbortionInputs ==
  {[id |-> 5, bloomEntryId |-> b, abortedCount |-> c] : b \in {1, 2, 3}, c \in {1, 2}}
FcHarvestInputs ==
  {[id |-> 6, bloomEntryId |-> b, harvestedCount |-> c] : b \in {1, 2}, c \in {1, 2}}

SeqsUpTo(S, n) == UNION {[1..k -> S] : k \in 0..n}

InitForecast ==
  /\ bloom_entries \in {JsonItem(q) : q \in SeqsUpTo(FcBloomInputs, FcMaxBlooms)}
  /\ abortion_entries \in {JsonItem(q) : q \in SeqsUpTo(FcAbortionInputs, FcMaxAbortions)}
  /\ harvest_entries \in {JsonItem(q) : q \in SeqsUpTo(FcHarvestInputs, FcMaxHarvests)}
  /\ now = 0
  /\ tab = "index"
  /\ mounted = {"index"}
  /\ alert = NoAlert
  /\ bloomEntries = <<>>
  /\ abSelectedBloom = <<>>
  /\ harvestForecasts = <<>>
  /\ hvSelectedBloom = <<>>
  /\ showHarvestForm = FALSE
  /\ io = NoIo
  /\ calls = [s \in Slots |-> IdleCall]
  /\ app_settings = NullItem
  /\ stats = InitialStats
  /\ upcomingHarvests = <<>>
  /\ abortionByLocation = <<>>
  /\ abortionByVariety = <<>>
  /\ harvestData = <<>>
  /\ timeRange = <<"7">>
  /\ analyticsLoading = TRUE
  /\ locationList = <<>>
  /\ locationFound = <<>>

\* HarvestPage mounts: useEffect(() => { loadHarvestData(); }, [])
HarvestPageMount(rb, ra, rh) ==
  /\ "harvest" \notin mounted /\ alert.kind = "none"
  /\ tab' = "harvest"
  /\ mounted' = mounted \cup {"harvest"}
  /\ harvestForecasts' = loadHarvestData(rb, ra, rh)
  /\ io' = [NoIo EXCEPT !.read = IF {rb, ra, rh} = {"ok"} THEN "ok" ELSE "reject"]
  /\ UNCHANGED <<storeVars, now, alert, abortionPageVars, hvSelectedBloom,
                 showHarvestForm, calls, otherPagesVars>>

NextForecast == \E rb, ra, rh \in Outcomes : HarvestPageMount(rb, ra, rh)

SpecForecast == InitForecast /\ [][NextForecast]_vars

\* ======================================================================
\* Settings level: the settings screen saves new defaults while blooms are
\* persisted; the harvest screen then loads its forecast.
\* ======================================================================
StMaxBlooms == 1

SettingsInputs ==
  {[defaultVariety |-> "White", maturityPeriodDays |-> 1, enableNotifications |-> TRUE],
   [defaultVariety |-> "Red", maturityPeriodDays |-> 2, enableNotifications |-> FALSE]}

InitSettings ==
  /\ bloom_entries \in {JsonItem(q) : q \in SeqsUpTo(FcBloomInputs, StMaxBlooms)}
  /\ abortion_entries \in {NullItem, JsonItem(<<[id |-> 5, bloomEntryId |-> 1, abortedCount |-> 1]>>)}
  /\ harvest_entries = NullItem
  /\ now = 0
  /\ tab = "index"
  /\ mounted = {"index"}
  /\ alert = NoAlert
  /\ bloomEntries = <<>>
  /\ abSelectedBloom = <<>>
  /\ harvestForecasts = <<>>
  /\ hvSelectedBloom = <<>>
  /\ showHarvestForm = FALSE
  /\ io = NoIo
  /\ calls = [s \in Slots |-> IdleCall]
  /\ app_settings = NullItem
  /\ stats = InitialStats
  /\ upcomingHarvests = <<>>
  /\ abortionByLocation = <<>>
  /\ abortionByVariety = <<>>
  /\ harvestData = <<>>
  /\ timeRange = <<"7">>
  /\ analyticsLoading = TRUE
  /\ locationList = <<>>
  /\ locationFound = <<>>

\* SettingsPage handleSaveSettings, with the settings the form holds
SettingsHandleSave(settings, w) ==
  /\ alert.kind = "none"
  /\ LET res == saveSettings(app_settings, settings, w)
     IN /\ app_settings' = res.item
        /\ alert' = saveAlert("settings", res.threw)
        /\ io' = [NoIo EXCEPT !.write = w, !.writes = res.writes]
  /\ UNCHANGED <<storeVars, now, tab, mounted, abortionPageVars, harvestPageVars,
                 calls, dashboardVars, analyticsVars, locationVars>>

NextSettings ==
  \/ \E settings \in SettingsInputs, w \in Outcomes : SettingsHandleSave(settings, w)
  \/ DismissAlert
  \/ \E rb, ra, rh \in Outcomes : HarvestPageMount(rb, ra, rh)

SpecSettings == InitSettings /\ [][NextSettings]_vars

\* ======================================================================
\* Dashboard level: loadDashboardData of index.tsx over arbitrary persisted
\* collections.  An instant is 2 * day + part of day: part 0 is midnight
\* (what new Date('YYYY-MM-DD') denotes), part 1 any later time of that day.
\* ======================================================================
DbMaxBlooms == 2
DbMaxAbortions == 1
DbMaxHarvests == 1

TimesOfDay == {0, 1}
instantOf(day, part) == 2 * day + part

\* the names index.tsx imports from utils/storage
DashboardImports == {"getBloomEntries", "getAbortionEntries", "getSettings"}

\* a count that takes in the blooms whose harvest date has passed
dashReadyToHarvestToday_dueByToday(blooms, today) ==
  Len(SelectSeq(blooms,
        LAMBDA bloom : formatDate(addDays(bloom.date, bloom.maturityPeriodDays)) <= today))

\* the count of blooms whose harvest date is today
dashReadyToHarvestToday(blooms, today) ==
  Len(SelectSeq(blooms,
        LAMBDA bloom : formatDate(addDays(bloom.date, bloom.maturityPeriodDays)) = today))

\* the object built for one bloom by the .map() of the upcoming list
upcomingOf(bloom, abortions) ==
  [bloom |-> bloom,
   harvestDate |-> formatDate(addDays(bloom.date, bloom.maturityPeriodDays)),
   remainingCount |-> bloom.count - totalAbortedOf(bloom, abortions)]

upcomingFilter(item, today, part) ==
  LET harvestDate == instantOf(item.harvestDate, 0)
      current == instantOf(today, part)
      nextWeek == instantOf(addDays(today, 7), part)
  IN harvestDate <= nextWeek /\ harvestDate >= current /\ item.remainingCount > 0

upcomingCompare(a, b) == instantOf(a.harvestDate, 0) - instantOf(b.harvestDate, 0)

RECURSIVE upcomingInsert(_, _)
upcomingInsert(x, q) ==
  IF q = <<>> THEN <<x>>
  ELSE IF upcomingCompare(x, Head(q)) < 0 THEN <<x>> \o q
  ELSE <<Head(q)>> \o upcomingInsert(x, Tail(q))

RECURSIVE upcomingSort(_)
upcomingSort(q) ==
  IF q = <<>> THEN <<>>
  ELSE upcomingInsert(q[Len(q)], upcomingSort(SubSeq(q, 1, Len(q) - 1)))

computeUpcoming(blooms, abortions, today, part) ==
  upcomingSort(SelectSeq([i \in 1..Len(blooms) |-> upcomingOf(blooms[i], abortions)],
                         LAMBDA item : upcomingFilter(item, today, part)))

dashTotalActiveBlooms(blooms, abortions) ==
  SumSeq([i \in 1..Len(blooms) |-> blooms[i].count - totalAbortedOf(blooms[i], abortions)])

\* the object handed to setStats
computeStats(blooms, abortions, today, part) ==
  [todayBlooms |-> Len(SelectSeq(blooms, LAMBDA entry : entry.date = today)),
   todayAbortions |-> Len(SelectSeq(abortions, LAMBDA entry : entry.abortionDate = today)),
   upcomingHarvests |-> Len(computeUpcoming(blooms, abortions, today, part)),
   totalActiveBlooms |-> dashTotalActiveBlooms(blooms, abortions),
   readyToHarvestToday |-> <<dashReadyToHarvestToday(blooms, today)>>]

\* loadDashboardData: the array handed to Promise.all calls getBloomEntries()
\* and getAbortionEntries(), then getHarvestEntries, a name the module does
\* not import: evaluating it throws a ReferenceError inside the try block,
\* the catch logs it and nothing is published.
loadDashboardData(rb, ra, part) ==
  LET blooms == getBloomEntries(bloom_entries, rb)
      abortions == getAbortionEntries(abortion_entries, ra)
      upcoming == computeUpcoming(blooms.value, abortions.value, Today, part)
  IN IF "getHarvestEntries" \notin DashboardImports \/ blooms.threw \/ abortions.threw
       THEN [threw |-> TRUE, stats |-> stats, upcomingHarvests |-> upcomingHarvests]
       ELSE [threw |-> FALSE,
             stats |-> computeStats(blooms.value, abortions.value, Today, part),
             upcomingHarvests |-> SubSeq(upcoming, 1, IF Len(upcoming) < 5 THEN Len(upcoming) ELSE 5)]

DbBloomInputs ==
  {[id |-> i, date |-> d, location |-> "N11A", count |-> c, maturityPeriodDays |-> 1] :
     i \in {1, 2}, d \in {0, 1, 8, 9}, c \in {1, 2}}
DbAbortionInputs ==
  {[id |-> 5, bloomEntryId |-> b, abortedCount |-> c, abortionDate |-> 2] :
     b \in {1, 2}, c \in {1, 2}}
DbHarvestInputs ==
  {[id |-> 6, bloomEntryId |-> 1, harvestedCount |-> c] : c \in {1, 2}}

InitDashboard ==
  /\ bloom_entries \in {JsonItem(q) : q \in SeqsUpTo(DbBloomInputs, DbMaxBlooms)}
  /\ abortion_entries \in {JsonItem(q) : q \in SeqsUpTo(DbAbortionInputs, DbMaxAbortions)}
  /\ harvest_entries \in {JsonItem(q) : q \in SeqsUpTo(DbHarvestInputs, DbMaxHarvests)}
  /\ now = 0
  /\ tab = "index"
  /\ mounted = {}
  /\ alert = NoAlert
  /\ bloomEntries = <<>>
  /\ abSelectedBloom = <<>>
  /\ harvestForecasts = <<>>
  /\ hvSelectedBloom = <<>>
  /\ showHarvestForm = FALSE
  /\ io = NoIo
  /\ calls = [s \in Slots |-> IdleCall]
  /\ app_settings = NullItem
  /\ stats = InitialStats
  /\ upcomingHarvests = <<>>
  /\ abortionByLocation = <<>>
  /\ abortionByVariety = <<>>
  /\ harvestData = <<>>
  /\ timeRange = <<"7">>
  /\ analyticsLoading = TRUE
  /\ locationList = <<>>
  /\ locationFound = <<>>

\* HomePage mounts: useEffect(() => { loadDashboardData(); }, [])
DashboardMount(rb, ra, part) ==
  /\ "index" \notin mounted
  /\ mounted' = mounted \cup {"index"}
  /\ LET res == loadDashboardData(rb, ra, part)
     IN stats' = res.stats /\ upcomingHarvests' = res.upcomingHarvests
  /\ io' = [NoIo EXCEPT !.read = IF {rb, ra} = {"ok"} THEN "ok" ELSE "reject"]
  /\ UNCHANGED <<storeVars, now, tab, alert, abortionPageVars, harvestPageVars,
                 calls, app_settings, analyticsVars, locationVars>>

\* pull to refresh: onRefresh awaits loadDashboardData
DashboardRefresh(rb, ra, part) ==
  /\ "index" \in mounted /\ tab = "index"
  /\ LET res == loadDashboardData(rb, ra, part)
     IN stats' = res.stats /\ upcomingHarvests' = res.upcomingHarvests
  /\ io' = [NoIo EXCEPT !.read = IF {rb, ra} = {"ok"} THEN "ok" ELSE "reject"]
  /\ UNCHANGED <<storeVars, now, tab, mounted, alert, abortionPageVars, harvestPageVars,
                 calls, app_settings, analyticsVars, locationVars>>

NextDashboard ==
  \/ \E rb, ra \in Outcomes, part \in TimesOfDay : DashboardMount(rb, ra, part)
  \/ \E rb, ra \in Outcomes, part \in TimesOfDay : DashboardRefresh(rb, ra, part)

SpecDashboard == InitDashboard /\ [][NextDashboard]_vars

\* ======================================================================
\* Analytics level: loadAnalyticsData of analytics.tsx over arbitrary
\* persisted blooms and abortions.  Bloom identifiers are pairwise distinct.
\* A rate is the exact fraction [num, den] with den > 0: the double that
\* (aborted / total) * 100 evaluates to orders and compares equal as the
\* fraction does for the counts considered.
\* ======================================================================
AnMaxBlooms == 2
AnMaxAbortions == 2

TimeRanges == {<<"7">>, <<"1", "4">>}

\* the keys of a Map in insertion order
RECURSIVE distinctInOrder(_)
distinctInOrder(q) ==
  IF q = <<>> THEN <<>>
  ELSE LET rest == distinctInOrder(SubSeq(q, 1, Len(q) - 1))
           last == q[Len(q)]
       IN IF \E i \in 1..Len(rest) : rest[i] = last THEN rest ELSE Append(rest, last)

\* a lookup that credits an unmatched abortion to the first bloom
findBloom_orFirst(blooms, id) ==
  LET found == SelectSeq(blooms, LAMBDA b : b.id = id)
  IN IF found = <<>> THEN SubSeq(blooms, 1, 1) ELSE <<Head(found)>>

\* bloomEntries.find(b => b.id === abortion.bloomEntryId)
findBloom(blooms, id) ==
  LET found == SelectSeq(blooms, LAMBDA b : b.id = id)
  IN IF found = <<>> THEN <<>> ELSE <<Head(found)>>

\* a Map entry whose total is overwritten by each bloom instead of added to
groupStats_overwrites(blooms, abortions, field, key) ==
  LET group == SelectSeq(blooms, LAMBDA b : b[field] = key)
  IN [total |-> IF group = <<>> THEN 0 ELSE group[Len(group)].count,
      aborted |->
        SumSeq(MapCount(
          SelectSeq(abortions,
                    LAMBDA a : /\ findBloom(blooms, a.bloomEntryId) # <<>>
                               /\ findBloom(blooms, a.bloomEntryId)[1][field] = key),
          "abortedCount"))]

\* the Map entry of one key after the two forEach passes
groupStats(blooms, abortions, field, key) ==
  [total |-> SumSeq(MapCount(SelectSeq(blooms, LAMBDA b : b[field] = key), "count")),
   aborted |->
     SumSeq(MapCount(
       SelectSeq(abortions,
                 LAMBDA a : /\ findBloom(blooms, a.bloomEntryId) # <<>>
                            /\ findBloom(blooms, a.bloomEntryId)[1][field] = key),
       "abortedCount"))]

\* a rate that leaves out the factor 100
rateOf_fraction(groupTotals) ==
  IF groupTotals.total > 0 THEN [num |-> groupTotals.aborted, den |-> groupTotals.total]
  ELSE [num |-> 0, den |-> 1]

rateOf(groupTotals) ==
  IF groupTotals.total > 0
    THEN [num |-> groupTotals.aborted * 100, den |-> groupTotals.total]
  ELSE [num |-> 0, den |-> 1]

\* the sign of x - y
rateDiff(x, y) == x.num * y.den - y.num * x.den

\* by location: map, before the filter
locationRatesAll(blooms, abortions) ==
  LET keys == distinctInOrder(MapCount(blooms, "location"))
  IN [k \in 1..Len(keys) |->
        LET groupTotals == groupStats(blooms, abortions, "location", keys[k])
        IN [location |-> keys[k], rate |-> rateOf(groupTotals),
            total |-> groupTotals.total, aborted |-> groupTotals.aborted]]

RECURSIVE locationInsert(_, _)
locationInsert(x, q) ==
  IF q = <<>> THEN <<x>>
  ELSE IF rateDiff(Head(q).rate, x.rate) < 0 THEN <<x>> \o q
  ELSE <<Head(q)>> \o locationInsert(x, Tail(q))

RECURSIVE locationSort(_)
locationSort(q) ==
  IF q = <<>> THEN <<>>
  ELSE locationInsert(q[Len(q)], locationSort(SubSeq(q, 1, Len(q) - 1)))

firstTen(q) == SubSeq(q, 1, IF Len(q) < 10 THEN Len(q) ELSE 10)

locationRates(blooms, abortions) ==
  firstTen(locationSort(SelectSeq(locationRatesAll(blooms, abortions),
                                  LAMBDA item : item.total > 0)))

\* by variety: map, before the filter
varietyRatesAll(blooms, abortions) ==
  LET keys == distinctInOrder(MapCount(blooms, "variety"))
  IN [k \in 1..Len(keys) |->
        [x |-> keys[k], y |-> rateOf(groupStats(blooms, abortions, "variety", keys[k]))]]

RECURSIVE varietyInsert(_, _)
varietyInsert(x, q) ==
  IF q = <<>> THEN <<x>>
  ELSE IF rateDiff(Head(q).y, x.y) < 0 THEN <<x>> \o q
  ELSE <<Head(q)>> \o varietyInsert(x, Tail(q))

RECURSIVE varietySort(_)
varietySort(q) ==
  IF q = <<>> THEN <<>>
  ELSE varietyInsert(q[Len(q)], varietySort(SubSeq(q, 1, Len(q) - 1)))

varietyRates(blooms, abortions) ==
  firstTen(varietySort(SelectSeq(varietyRatesAll(blooms, abortions),
                                 LAMBDA item : item.y.num > 0)))

\* the expected daily harvest chart
harvestForecastChart(blooms, abortions, today, days) ==
  [i \in 1..days |->
     LET targetDate == formatDate(addDays(today, i - 1))
         due == SelectSeq(blooms,
                  LAMBDA bloom :
                    formatDate(addDays(bloom.date, bloom.maturityPeriodDays)) = targetDate)
     IN [x |-> formatDisplayDate(targetDate),
         y |-> SumSeq([j \in 1..Len(due) |->
                         due[j].count - totalAbortedOf(due[j], abortions)])]]

AnBloomShapes ==
  {[date |-> 1, location |-> l, variety |-> v, count |-> c, maturityPeriodDays |-> 1] :
     l \in {"N11A", "NT3D"}, v \in {"Red", "White"}, c \in {0, 10}}
AnAbortionInputs ==
  {[id |-> 5, bloomEntryId |-> 1, abortedCount |-> 3],
   [id |-> 6, bloomEntryId |-> 2, abortedCount |-> 11],
   [id |-> 7, bloomEntryId |-> 3, abortedCount |-> 3]}

\* the i-th bloom carries the identifier i
withIds(q) ==
  [i \in 1..Len(q) |->
     [id |-> i, date |-> q[i].date, location |-> q[i].location, variety |-> q[i].variety,
      count |-> q[i].count, maturityPeriodDays |-> q[i].maturityPeriodDays]]

InitAnalytics ==
  /\ bloom_entries \in {JsonItem(withIds(q)) : q \in SeqsUpTo(AnBloomShapes, AnMaxBlooms)}
  /\ abortion_entries \in {JsonItem(q) : q \in SeqsUpTo(AnAbortionInputs, AnMaxAbortions)}
  /\ harvest_entries = NullItem
  /\ now = 0
  /\ tab = "index"
  /\ mounted = {"index"}
  /\ alert = NoAlert
  /\ bloomEntries = <<>>
  /\ abSelectedBloom = <<>>
  /\ harvestForecasts = <<>>
  /\ hvSelectedBloom = <<>>
  /\ showHarvestForm = FALSE
  /\ io = NoIo
  /\ calls = [s \in Slots |-> IdleCall]
  /\ app_settings = NullItem
  /\ stats = InitialStats
  /\ upcomingHarvests = <<>>
  /\ abortionByLocation = <<>>
  /\ abortionByVariety = <<>>
  /\ harvestData = <<>>
  /\ timeRange = <<"7">>
  /\ analyticsLoading = TRUE
  /\ locationList = <<>>
  /\ locationFound = <<>>

\* loadAnalyticsData with the given time range: the values handed to
\* setHarvestData, setAbortionByLocation and setAbortionByVariety
loadAnalyticsData(range, rb, ra) ==
  LET blooms == getBloomEntries(bloom_entries, rb)
      abortions == getAbortionEntries(abortion_entries, ra)
      days == parseInt(range).n
  IN IF blooms.threw \/ abortions.threw
       THEN [harvestData |-> harvestData, abortionByLocation |-> abortionByLocation,
             abortionByVariety |-> abortionByVariety]
       ELSE [harvestData |-> harvestForecastChart(blooms.value, abortions.value, Today, days),
             abortionByLocation |-> locationRates(blooms.value, abortions.value),
             abortionByVariety |-> varietyRates(blooms.value, abortions.value)]

\* AnalyticsPage mounts: the effect on [timeRange] runs for the first time
AnalyticsMount(rb, ra) ==
  /\ "analytics" \notin mounted
  /\ tab' = "analytics"
  /\ mounted' = mounted \cup {"analytics"}
  /\ LET res == loadAnalyticsData(timeRange, rb, ra)
     IN /\ harvestData' = res.harvestData
        /\ abortionByLocation' = res.abortionByLocation
        /\ abortionByVariety' = res.abortionByVariety
  /\ analyticsLoading' = FALSE
  /\ io' = [NoIo EXCEPT !.read = IF {rb, ra} = {"ok"} THEN "ok" ELSE "reject"]
  /\ UNCHANGED <<storeVars, now, alert, abortionPageVars, harvestPageVars, calls,
                 app_settings, dashboardVars, timeRange, locationVars>>

\* the Picker sets timeRange; the effect on [timeRange] reloads
AnalyticsSetTimeRange(range, rb, ra) ==
  /\ "analytics" \in mounted /\ tab = "analytics"
  /\ range # timeRange
  /\ timeRange' = range
  /\ LET res == loadAnalyticsData(range, rb, ra)
     IN /\ harvestData' = res.harvestData
        /\ abortionByLocation' = res.abortionByLocation
        /\ abortionByVariety' = res.abortionByVariety
  /\ analyticsLoading' = FALSE
  /\ io' = [NoIo EXCEPT !.read = IF {rb, ra} = {"ok"} THEN "ok" ELSE "reject"]
  /\ UNCHANGED <<storeVars, now, tab, mounted, alert, abortionPageVars, harvestPageVars,
                 calls, app_settings, dashboardVars, locationVars>>

NextAnalytics ==
  \/ \E rb, ra \in Outcomes : AnalyticsMount(rb, ra)
  \/ \E range \in TimeRanges, rb, ra \in Outcomes : AnalyticsSetTimeRange(range, rb, ra)

SpecAnalytics == InitAnalytics /\ [][NextAnalytics]_vars

\* ------------------------------------------------- the farm location catalog
\* utils/farmLocations.ts.  The generators are pure; a location is
\* [id, type, zone, name] with the strings the template literals build.

\* String.fromCharCode(65 + i) for the letters the generators use
fromCharCode(code) ==
  <<"A", "B", "C", "D", "E", "F", "G", "H", "I", "J", "K", "L">>[code - 64]

zones == <<"North", "South">>
positions == <<"Upper", "Lower">>

\* zones.forEach(zone => for gh 1..4, for row 1..3, for pole 0..11)
generateGreenhouseLocations ==
  [k \in 1..(2 * 4 * 3 * 12) |->
     LET zone == zones[(k - 1) \div (4 * 3 * 12) + 1]
         gh == ((k - 1) % (4 * 3 * 12)) \div (3 * 12) + 1
         row == ((k - 1) % (3 * 12)) \div 12 + 1
         pole == (k - 1) % 12
         poleLetter == fromCharCode(65 + pole)
     IN [id |-> SubSeq(zone, 1, 1) \o ToString(gh) \o ToString(row) \o poleLetter,
         type |-> "Greenhouse",
         zone |-> zone,
         name |-> zone \o " GH" \o ToString(gh) \o " Row" \o ToString(row)
                       \o " Pole" \o poleLetter]]

\* zones.forEach(zone => for trellis 1..4, for section 0..9)
generateTrellisLocations ==
  [k \in 1..(2 * 4 * 10) |->
     LET zone == zones[(k - 1) \div (4 * 10) + 1]
         trellis == ((k - 1) % (4 * 10)) \div 10 + 1
         section == (k - 1) % 10
         sectionLetter == fromCharCode(65 + section)
     IN [id |-> SubSeq(zone, 1, 1) \o "T" \o ToString(trellis) \o sectionLetter,
         type |-> "Trellis",
         zone |-> zone,
         name |-> zone \o " Trellis " \o ToString(trellis) \o " Section " \o sectionLetter]]

\* a generator whose identifier leaves out the position letter
generateDoublePoleLocations_noPosition ==
  [k \in 1..(2 * 2 * 6) |->
     LET zone == zones[(k - 1) \div (2 * 6) + 1]
         position == positions[((k - 1) % (2 * 6)) \div 6 + 1]
         pole == ((k - 1) % 6) + 1
     IN [id |-> SubSeq(zone, 1, 1) \o "DP" \o ToString(pole),
         type |-> "Double Pole",
         zone |-> zone,
         name |-> zone \o " Double Pole " \o position \o " " \o ToString(pole)]]

\* zones.forEach(zone => positions.forEach(position => for pole 1..6))
generateDoublePoleLocations ==
  [k \in 1..(2 * 2 * 6) |->
     LET zone == zones[(k - 1) \div (2 * 6) + 1]
         position == positions[((k - 1) % (2 * 6)) \div 6 + 1]
         pole == ((k - 1) % 6) + 1
     IN [id |-> SubSeq(zone, 1, 1) \o "DP" \o SubSeq(position, 1, 1) \o ToString(pole),
         type |-> "Double Pole",
         zone |-> zone,
         name |-> zone \o " Double Pole " \o position \o " " \o ToString(pole)]]

getAllFarmLocations ==
  generateGreenhouseLocations \o generateTrellisLocations \o generateDoublePoleLocations

getLocationsByType(type) ==
  SelectSeq(getAllFarmLocations, LAMBDA l : l.type = type)

getLocationsByZone(zone) ==
  SelectSeq(getAllFarmLocations, LAMBDA l : l.zone = zone)

\* a lookup that matches on the display name
getLocationById_byName(id) ==
  LET found == SelectSeq(getAllFarmLocations, LAMBDA l : l.name = id)
  IN IF found = <<>> THEN <<>> ELSE <<Head(found)>>

\* find: the first location with that id, or undefined (the empty sequence)
getLocationById(id) ==
  LET found == SelectSeq(getAllFarmLocations, LAMBDA l : l.id = id)
  IN IF found = <<>> THEN <<>> ELSE <<Head(found)>>

LocationTypes == {"Greenhouse", "Trellis", "Double Pole"}

\* identifiers asked for: every catalog identifier and strings outside it
CatalogIds == {getAllFarmLocations[k].id : k \in 1..Len(getAllFarmLocations)}
ForeignIds ==
  {"", "N11M", "N51A", "N14A", "NT3K", "NT5A", "NDPU7", "NDPM1", "n11a", "X11A",
   "North GH1 Row1 PoleA", "N11", "N11AA"}
LocationIdInputs == CatalogIds \cup ForeignIds

InitLocations ==
  /\ bloom_entries = NullItem
  /\ abortion_entries = NullItem
  /\ harvest_entries = NullItem
  /\ now = 0
  /\ tab = "index"
  /\ mounted = {"index"}
  /\ alert = NoAlert
  /\ bloomEntries = <<>>
  /\ abSelectedBloom = <<>>
  /\ harvestForecasts = <<>>
  /\ hvSelectedBloom = <<>>
  /\ showHarvestForm = FALSE
  /\ io = NoIo
  /\ calls = [s \in Slots |-> IdleCall]
  /\ app_settings = NullItem
  /\ stats = InitialStats
  /\ upcomingHarvests = <<>>
  /\ abortionByLocation = <<>>
  /\ abortionByVariety = <<>>
  /\ harvestData = <<>>
  /\ timeRange = <<"7">>
  /\ analyticsLoading = TRUE
  /\ locationList = <<>>
  /\ locationFound = <<>>

catalogFrame ==
  <<storeVars, now, tab, mounted, alert, abortionPageVars, harvestPageVars, io, calls,
    app_settings, dashboardVars, analyticsVars>>

GetAllFarmLocations ==
  /\ locationList' = <<[call |-> <<"getAllFarmLocations">>, value |-> getAllFarmLocations]>>
  /\ UNCHANGED <<catalogFrame, locationFound>>

GetLocationsByType(type) ==
  /\ locationList' =
       <<[call |-> <<"getLocationsByType", type>>, value |-> getLocationsByType(type)]>>
  /\ UNCHANGED <<catalogFrame, locationFound>>

GetLocationsByZone(zone) ==
  /\ locationList' =
       <<[call |-> <<"getLocationsByZone", zone>>, value |-> getLocationsByZone(zone)]>>
  /\ UNCHANGED <<catalogFrame, locationFound>>

GetLocationById(id) ==
  /\ locationFound' = <<[id |-> id, value |-> getLocationById(id)]>>
  /\ UNCHANGED <<catalogFrame, locationList>>

NextLocations ==
  \/ GetAllFarmLocations
  \/ \E type \in LocationTypes : GetLocationsByType(type)
  \/ \E zone \in {"North", "South"} : GetLocationsByZone(zone)
  \/ \E id \in LocationIdInputs : GetLocationById(id)

SpecLocations == InitLocations /\ [][NextLocations]_vars

\* ======================================================================
\* Storage maintenance: updateBloomEntry, clearAllData and getSettings of
\* utils/storage.ts, called one at a time by a single caller, one awaited
\* AsyncStorage operation per step, together with the three getters.
\* ======================================================================
MtMaxBlooms == 2

\* entries.map(entry => entry.id === updatedEntry.id ? updatedEntry : entry)
\* and the setItem of the result
updateBloomEntryWrite(item, existingEntries, updatedEntry, w) ==
  LET updatedEntries == [i \in 1..Len(existingEntries) |->
                           IF existingEntries[i].id = updatedEntry.id THEN updatedEntry
                           ELSE existingEntries[i]]
  IN IF w = "ok" THEN [threw |-> FALSE, item |-> JsonItem(updatedEntries), writes |-> 1]
     ELSE [threw |-> TRUE, item |-> item, writes |-> 1]

CollectionKeys == {"bloom_entries", "abortion_entries", "harvest_entries"}

\* a clear that removes the settings with the collections
clearAllData_withSettings(w, removed) ==
  IF w = "ok"
    THEN [threw |-> FALSE, removed |-> CollectionKeys \cup {"app_settings"}]
  ELSE [threw |-> TRUE, removed |-> removed]

\* AsyncStorage.multiRemove of the three collection keys; a rejected
\* multiRemove may have removed any of them before it failed
clearAllData(w, removed) ==
  IF w = "ok" THEN [threw |-> FALSE, removed |-> CollectionKeys]
  ELSE [threw |-> TRUE, removed |-> removed]

afterRemove(key, item, removed) == IF key \in removed THEN NullItem ELSE item

UpdateInputs ==
  {[id |-> i, date |-> 1, location |-> "NT3D", count |-> 5, maturityPeriodDays |-> 2] :
     i \in {0, 1, 7}}

StoredSettingsInputs ==
  {[defaultVariety |-> "White", maturityPeriodDays |-> 1, enableNotifications |-> FALSE],
   [maturityPeriodDays |-> 30],
   [defaultVariety |-> "Yellow", enableNotifications |-> FALSE]}

InitMaintenance ==
  /\ bloom_entries \in
       {JsonItem(q) : q \in SeqsUpTo(StoreBloomInputs, MtMaxBlooms) \ {<<>>}}
         \cup {CorruptItem}
  /\ abortion_entries \in {JsonItem(<<a>>) : a \in StoreAbortionInputs}
  /\ harvest_entries \in {JsonItem(<<h>>) : h \in StoreHarvestInputs} \cup {CorruptItem}
  /\ now = 0
  /\ tab = "index"
  /\ mounted = {"index"}
  /\ alert = NoAlert
  /\ bloomEntries = <<>>
  /\ abSelectedBloom = <<>>
  /\ harvestForecasts = <<>>
  /\ hvSelectedBloom = <<>>
  /\ showHarvestForm = FALSE
  /\ io = NoIo
  /\ calls = [s \in Slots |-> IdleCall]
  /\ app_settings \in
       {NullItem, CorruptItem} \cup {JsonItem(<<st>>) : st \in StoredSettingsInputs}
  /\ stats = InitialStats
  /\ upcomingHarvests = <<>>
  /\ abortionByLocation = <<>>
  /\ abortionByVariety = <<>>
  /\ harvestData = <<>>
  /\ timeRange = <<"7">>
  /\ analyticsLoading = TRUE
  /\ locationList = <<>>
  /\ locationFound = <<>>

maintenanceFrame ==
  <<now, tab, mounted, alert, abortionPageVars, harvestPageVars, io, dashboardVars,
    analyticsVars, locationVars>>

\* a caller enters updateBloomEntry(updatedEntry)
StoreInvokeUpdate(s, updatedEntry) ==
  /\ calls[s].pc = "idle"
  /\ calls' = [calls EXCEPT ![s] = [IdleCall EXCEPT !.pc = "updateGetItem",
                                                    !.op = "updateBloomEntry",
                                                    !.entry = <<updatedEntry>>]]
  /\ UNCHANGED <<storeVars, app_settings, maintenanceFrame>>

\* const entries = await getBloomEntries()
StoreUpdateGetItem(s, r) ==
  /\ calls[s].pc = "updateGetItem"
  /\ LET got == getBloomEntries(bloom_entries, r)
     IN calls' = [calls EXCEPT ![s] =
          IF got.threw THEN [calls[s] EXCEPT !.pc = "threw", !.read = r]
          ELSE [calls[s] EXCEPT !.pc = "updateSetItem", !.read = r,
                                !.existingEntries = got.value]]
  /\ UNCHANGED <<storeVars, app_settings, maintenanceFrame>>

\* await AsyncStorage.setItem(BLOOM_ENTRIES_KEY, JSON.stringify(updatedEntries))
StoreUpdateSetItem(s, w) ==
  /\ calls[s].pc = "updateSetItem"
  /\ LET c == calls[s]
         res == updateBloomEntryWrite(bloom_entries, c.existingEntries, c.entry[1], w)
     IN /\ bloom_entries' = res.item
        /\ calls' = [calls EXCEPT ![s] =
             [c EXCEPT !.pc = IF res.threw THEN "threw" ELSE "returned",
                       !.write = w, !.writes = res.writes]]
  /\ UNCHANGED <<abortion_entries, harvest_entries, app_settings, maintenanceFrame>>

\* a caller enters clearAllData()
StoreInvokeClear(s) ==
  /\ calls[s].pc = "idle"
  /\ calls' = [calls EXCEPT ![s] = [IdleCall EXCEPT !.pc = "multiRemove",
                                                    !.op = "clearAllData"]]
  /\ UNCHANGED <<storeVars, app_settings, maintenanceFrame>>

\* await AsyncStorage.multiRemove([...])
StoreMultiRemove(s, w, removed) ==
  /\ calls[s].pc = "multiRemove"
  /\ LET res == clearAllData(w, removed)
     IN /\ bloom_entries' = afterRemove("bloom_entries", bloom_entries, res.removed)
        /\ abortion_entries' =
             afterRemove("abortion_entries", abortion_entries, res.removed)
        /\ harvest_entries' = afterRemove("harvest_entries", harvest_entries, res.removed)
        /\ app_settings' = afterRemove("app_settings", app_settings, res.removed)
        /\ calls' = [calls EXCEPT ![s] =
             [calls[s] EXCEPT !.pc = IF res.threw THEN "threw" ELSE "returned",
                              !.write = w]]
  /\ UNCHANGED maintenanceFrame

\* a caller enters getSettings()
StoreInvokeGetSettings(s) ==
  /\ calls[s].pc = "idle"
  /\ calls' = [calls EXCEPT ![s] = [IdleCall EXCEPT !.pc = "settingsGetItem",
                                                    !.op = "getSettings"]]
  /\ UNCHANGED <<storeVars, app_settings, maintenanceFrame>>

\* await AsyncStorage.getItem(SETTINGS_KEY), the spread and the catch
StoreSettingsGetItem(s, r) ==
  /\ calls[s].pc = "settingsGetItem"
  /\ calls' = [calls EXCEPT ![s] =
       [calls[s] EXCEPT !.pc = "returned", !.read = r,
                        !.value = <<getSettings(app_settings, r)>>]]
  /\ UNCHANGED <<storeVars, app_settings, maintenanceFrame>>

NextMaintenance ==
  \/ \E updatedEntry \in UpdateInputs : StoreInvokeUpdate("a", updatedEntry)
  \/ \E r \in Outcomes : StoreUpdateGetItem("a", r)
  \/ \E w \in Outcomes : StoreUpdateSetItem("a", w)
  \/ StoreInvokeClear("a")
  \/ \E w \in Outcomes, removed \in SUBSET CollectionKeys : StoreMultiRemove("a", w, removed)
  \/ StoreInvokeGetSettings("a")
  \/ \E r \in Outcomes : StoreSettingsGetItem("a", r)
  \/ \E op \in GetOps : StoreInvokeGet("a", op)
  \/ \E r \in Outcomes : StoreGetItem("a", r)
  \/ StoreReturn("a")

SpecMaintenance == InitMaintenance /\ [][NextMaintenance]_vars

\* ======================================================================
\* Properties
\* ======================================================================
CountOf(q, x) == Cardinality({i \in 1..Len(q) : q[i] = x})

\* C5 - when a save runs with no other save of its collection in flight and
\* returns without error, the persisted collection is the one persisted
\* before with the new entry appended, whatever its internal read returned,
\* and the other two collections are unchanged.
C5_SaveAppends ==
  [][\A s \in Slots :
       (calls[s].pc = "setItem" /\ calls'[s].pc = "returned" /\ calls[s].alone)
         => LET key == KeyOf(calls[s].op)
                e == calls[s].entry[1]
            IN /\ key = "bloom_entries" =>
                    /\ bloom_entries' = JsonItem(Append(bloom_entries.entries, e))
                    /\ UNCHANGED <<abortion_entries, harvest_entries>>
               /\ key = "abortion_entries" =>
                    /\ abortion_entries' = JsonItem(Append(abortion_entries.entries, e))
                    /\ UNCHANGED <<bloom_entries, harvest_entries>>
               /\ key = "harvest_entries" =>
                    /\ harvest_entries' = JsonItem(Append(harvest_entries.entries, e))
                    /\ UNCHANGED <<bloom_entries, abortion_entries>>]_vars

\* C6 - when two saveBloomEntry calls have both read the collection before
\* either wrote it and both have returned successfully, the persisted
\* collection is what one of them read plus that call's entry alone: the
\* other call's entry is not added.
BothRacedAndReturned(s, o) ==
  /\ s # o
  /\ calls[s].op = "saveBloomEntry" /\ calls[o].op = "saveBloomEntry"
  /\ calls[s].pc = "returned" /\ calls[o].pc = "returned"
  /\ calls[s].raced /\ calls[o].raced

C6_RaceLosesOneEntry ==
  \A s, o \in Slots :
    BothRacedAndReturned(s, o) =>
      \E last \in {s, o} :
        LET lost == CHOOSE x \in {s, o} : x # last
        IN /\ bloom_entries =
                JsonItem(Append(calls[last].existingEntries, calls[last].entry[1]))
           /\ calls[lost].entry # calls[last].entry =>
                CountOf(bloom_entries.entries, calls[lost].entry[1]) =
                  CountOf(calls[last].existingEntries, calls[lost].entry[1])

C6_Witness ==
  \E s, o \in Slots :
    /\ BothRacedAndReturned(s, o)
    /\ calls[s].entry # calls[o].entry
    /\ calls[s].existingEntries = calls[o].existingEntries
    /\ bloom_entries = JsonItem(Append(calls[o].existingEntries, calls[o].entry[1]))
    /\ CountOf(bloom_entries.entries, calls[s].entry[1]) = 0

\* C7 - getBloomEntries, getAbortionEntries and getHarvestEntries never
\* throw: the step that settles one always returns, with the empty collection
\* when the read was rejected, when the stored value does not decode and when
\* nothing is stored.
C7_GettersFailSoft ==
  [][\A s \in Slots :
       (calls[s].pc = "getItem" /\ calls[s].op \in GetOps /\ calls'[s] # calls[s])
         => /\ calls'[s].pc = "returned"
            /\ calls'[s].read = "reject" => calls'[s].value = <<>>
            /\ ItemAt(KeyOf(calls[s].op)).state \in {"null", "corrupt"} =>
                 calls'[s].value = <<>>]_vars

C7_Witness ==
  \E s \in Slots :
    /\ calls[s].op \in GetOps /\ calls[s].pc = "returned"
    /\ calls[s].read = "reject" /\ calls[s].value = <<>>
    /\ ItemAt(KeyOf(calls[s].op)).entries # <<>>

\* C8 - when the setItem of a save is rejected, the save throws to its caller
\* after that single attempt, the three persisted collections are unchanged,
\* and the calling workflow shows its error alert, not the success alert.
C8_WriteFailureSurfaces ==
  [][\A s \in Slots :
       (calls[s].pc = "setItem" /\ calls'[s].pc # "setItem" /\ calls'[s].write = "reject")
         => /\ calls'[s].pc = "threw"
            /\ calls'[s].writes = 1
            /\ UNCHANGED storeVars
            /\ alert' = [screen |-> ScreenOf(calls[s].op), kind |-> "error"]]_vars

C8_Witness ==
  \E s \in Slots :
    /\ calls[s].op = "saveHarvestEntry" /\ calls[s].pc = "threw"
    /\ calls[s].write = "reject" /\ calls[s].writes = 1
    /\ alert = [screen |-> "harvest", kind |-> "error"]
    /\ harvest_entries.entries # <<>>

\* ---------------------------------------------------------------- ledger
\* The yield ledger over what is persisted: sums over the entries that
\* reference the bloom, and the remainder floored at zero.
PersistedBlooms == bloom_entries.entries
PersistedAbortions == abortion_entries.entries
PersistedHarvests == harvest_entries.entries

RawRemainder(b) ==
  b.count - totalAbortedOf(b, PersistedAbortions) - totalHarvestedOf(b, PersistedHarvests)

LedgerRemaining(b) == Max0(RawRemainder(b))

RecomputedForecasts ==
  computeForecasts(PersistedBlooms, PersistedAbortions, PersistedHarvests, Today)

\* C1 - for every persisted bloom, over-aborted and over-harvested ones
\* included, the remaining count that loadHarvestData computes for it is
\* max(0, count - aborted - harvested), and is never negative.
C1_RemainingIsClamped ==
  \A i \in 1..Len(PersistedBlooms) :
    LET b == PersistedBlooms[i]
        f == forecastOf(b, PersistedAbortions, PersistedHarvests, Today)
    IN f.remainingCount = LedgerRemaining(b) /\ f.remainingCount >= 0

\* C2 - in every reachable state of the entry workflows every persisted bloom
\* has count - total aborted - total harvested >= 0.
C2_RemainderNonNegative ==
  \A i \in 1..Len(PersistedBlooms) : RawRemainder(PersistedBlooms[i]) >= 0

\* C3 - in every reachable state the abortions persisted for a bloom sum to
\* at most the bloom's flower count.
C3_AbortedWithinCount ==
  \A i \in 1..Len(PersistedBlooms) :
    totalAbortedOf(PersistedBlooms[i], PersistedAbortions) <= PersistedBlooms[i].count

\* C4 - a submission is persisted only when its count is > 0 and, for an
\* abortion or a harvest, does not exceed the remaining count of its bloom
\* computed from the collections persisted when it was submitted; any other
\* submission leaves the three collections unchanged.
Newest(item) == item.entries[Len(item.entries)]

WithinRemaining(bloomEntryId, n) ==
  \A i \in 1..Len(PersistedBlooms) :
    PersistedBlooms[i].id = bloomEntryId => n <= LedgerRemaining(PersistedBlooms[i])

C4_InvalidSubmissionsRejected ==
  [][/\ bloom_entries' # bloom_entries => Newest(bloom_entries').count > 0
     /\ abortion_entries' # abortion_entries =>
          /\ Newest(abortion_entries').abortedCount > 0
          /\ WithinRemaining(Newest(abortion_entries').bloomEntryId,
                             Newest(abortion_entries').abortedCount)
     /\ harvest_entries' # harvest_entries =>
          /\ Newest(harvest_entries').harvestedCount > 0
          /\ WithinRemaining(Newest(harvest_entries').bloomEntryId,
                             Newest(harvest_entries').harvestedCount)]_vars

\* C9 - after loadHarvestData has read the three collections, the forecast
\* list holds exactly one entry for each persisted bloom whose remaining
\* count is > 0 and none for a bloom whose remaining count is 0.
ForecastBlooms == [j \in 1..Len(harvestForecasts) |-> harvestForecasts[j].bloomEntry]

C9_ForecastMembership ==
  io.read = "ok" =>
    /\ \A i \in 1..Len(PersistedBlooms) :
         LET b == PersistedBlooms[i]
         IN CountOf(ForecastBlooms, b) =
              IF LedgerRemaining(b) > 0 THEN CountOf(PersistedBlooms, b) ELSE 0
    /\ Len(harvestForecasts) =
         Cardinality({i \in 1..Len(PersistedBlooms) :
                        LedgerRemaining(PersistedBlooms[i]) > 0})

C9_Witness ==
  /\ io.read = "ok"
  /\ Len(PersistedBlooms) = 2
  /\ Len(harvestForecasts) = 1
  /\ \E i \in 1..2 :
       /\ LedgerRemaining(PersistedBlooms[i]) = 0
       /\ PersistedAbortions # <<>> /\ PersistedHarvests # <<>>
       /\ RawRemainder(PersistedBlooms[i]) = 0
       /\ harvestForecasts[1].bloomEntry = PersistedBlooms[3 - i]

\* C10 - once the remaining count of a persisted bloom is 0, no later step
\* makes that bloom appear in the forecast recomputed from the persisted
\* collections.
C10_NoReappearance ==
  [][\A i \in 1..Len(PersistedBlooms) :
       LedgerRemaining(PersistedBlooms[i]) = 0 =>
         \A j \in 1..Len(RecomputedForecasts') :
           RecomputedForecasts'[j].bloomEntry # PersistedBlooms[i]]_vars

\* C11 - whenever the harvest screen is in use (focused, no alert on top of
\* it), the forecast list it displays, and against which the next selection
\* and the next harvest submission are made, is the forecast recomputed from
\* the three persisted collections.
C11_ForecastNeverStale ==
  (tab = "harvest" /\ alert.kind = "none") => harvestForecasts = RecomputedForecasts

\* C12 - in the forecast list every entry that is ready today precedes every
\* entry that is not, and the entries that are not ready today are in
\* non-decreasing order of signed days until harvest.
C12_ForecastOrder ==
  \A i, j \in 1..Len(harvestForecasts) :
    i < j =>
      /\ harvestForecasts[j].isReadyToday => harvestForecasts[i].isReadyToday
      /\ (~harvestForecasts[i].isReadyToday /\ ~harvestForecasts[j].isReadyToday) =>
           harvestForecasts[i].daysUntilHarvest <= harvestForecasts[j].daysUntilHarvest

C12_Witness ==
  /\ Len(harvestForecasts) = 2 /\ Len(PersistedBlooms) = 2
  /\ harvestForecasts[1].bloomEntry = PersistedBlooms[2]
  /\ harvestForecasts[1].isReadyToday
  /\ harvestForecasts[2].daysUntilHarvest < 0

\* C13 - for every forecast entry the signed days until harvest is 0 exactly
\* when the expected harvest date is today, is the positive day difference
\* when the expected date is after today, and is minus the day difference
\* when the expected date is before today.
C13_SignedDays ==
  \A i \in 1..Len(harvestForecasts) :
    LET f == harvestForecasts[i]
    IN /\ f.daysUntilHarvest = 0 <=> f.expectedHarvestDate = Today
       /\ f.expectedHarvestDate > Today =>
            f.daysUntilHarvest > 0 /\ f.daysUntilHarvest = f.expectedHarvestDate - Today
       /\ f.expectedHarvestDate < Today =>
            f.daysUntilHarvest < 0 /\ f.daysUntilHarvest = -(Today - f.expectedHarvestDate)

C13_Witness ==
  /\ Len(harvestForecasts) = 2
  /\ harvestForecasts[1].expectedHarvestDate < Today
  /\ harvestForecasts[1].daysUntilHarvest < 0
  /\ harvestForecasts[2].expectedHarvestDate > Today + 1
  /\ harvestForecasts[2].daysUntilHarvest > 1

\* C14 - every forecast entry's expected harvest date is its bloom's date plus
\* that bloom's own maturityPeriodDays, and a save of the settings changes
\* neither the persisted collections nor the forecast computed from them.
C14_ExpectedDateFromBloomOnly ==
  [][/\ \A i \in 1..Len(harvestForecasts') :
          harvestForecasts'[i].expectedHarvestDate =
            harvestForecasts'[i].bloomEntry.date +
              harvestForecasts'[i].bloomEntry.maturityPeriodDays
     /\ app_settings' # app_settings =>
          /\ UNCHANGED storeVars
          /\ RecomputedForecasts' = RecomputedForecasts]_vars

C14_Witness ==
  /\ app_settings.state = "json"
  /\ Len(harvestForecasts) = 1
  /\ app_settings.entries[1].maturityPeriodDays # harvestForecasts[1].bloomEntry.maturityPeriodDays
  /\ harvestForecasts[1].expectedHarvestDate =
       harvestForecasts[1].bloomEntry.date + harvestForecasts[1].bloomEntry.maturityPeriodDays

\* C15 - the totalActiveBlooms that loadDashboardData computes from the
\* persisted collections is the sum over all blooms of
\* max(0, count - total aborted - total harvested).
C15_TotalActiveBlooms ==
  dashTotalActiveBlooms(PersistedBlooms, PersistedAbortions) =
    SumSeq([i \in 1..Len(PersistedBlooms) |-> LedgerRemaining(PersistedBlooms[i])])

\* C16 - at any time of day the upcoming-harvest list that loadDashboardData
\* computes holds exactly the blooms whose expected harvest date d has
\* today <= d <= today + 7 and whose count - aborted - harvested is > 0, in
\* non-decreasing order of expected date, and the upcomingHarvests counter
\* is the length of that list.
ExpectedDate(b) == b.date + b.maturityPeriodDays

DueWithinWeek(b) ==
  Today <= ExpectedDate(b) /\ ExpectedDate(b) <= Today + 7 /\ RawRemainder(b) > 0

C16_UpcomingHarvests ==
  \A part \in TimesOfDay :
    LET upcoming == computeUpcoming(PersistedBlooms, PersistedAbortions, Today, part)
        listed == [j \in 1..Len(upcoming) |-> upcoming[j].bloom]
    IN /\ \A i \in 1..Len(PersistedBlooms) :
            CountOf(listed, PersistedBlooms[i]) =
              IF DueWithinWeek(PersistedBlooms[i])
                THEN CountOf(PersistedBlooms, PersistedBlooms[i]) ELSE 0
       /\ \A i, j \in 1..Len(upcoming) :
            i < j => upcoming[i].harvestDate <= upcoming[j].harvestDate
       /\ computeStats(PersistedBlooms, PersistedAbortions, Today, part).upcomingHarvests =
            Len(upcoming)

\* C17 - once the dashboard has loaded with every read succeeding, the
\* readyToHarvestToday counter it shows is the number of persisted blooms
\* whose expected harvest date is today, blooms with nothing left included.
C17_ReadyToHarvestToday ==
  ("index" \in mounted /\ io.read = "ok") =>
    stats.readyToHarvestToday =
      <<Cardinality({i \in 1..Len(PersistedBlooms) : ExpectedDate(PersistedBlooms[i]) = Today})>>

\* C18 - every location group and every variety group that the abortion
\* analytics computes has a rate within [0, 100], and a rate of 0 when the
\* group's total bloomed count is 0.
RateWithinPercent(rate) == 0 <= rate.num /\ rate.num <= 100 * rate.den

C18_RateWithinBounds ==
  LET byLocation == locationRatesAll(PersistedBlooms, PersistedAbortions)
      byVariety == varietyRatesAll(PersistedBlooms, PersistedAbortions)
  IN /\ \A k \in 1..Len(byLocation) :
          /\ RateWithinPercent(byLocation[k].rate)
          /\ byLocation[k].total = 0 => byLocation[k].rate.num = 0
     /\ \A k \in 1..Len(byVariety) :
          /\ RateWithinPercent(byVariety[k].y)
          /\ groupStats(PersistedBlooms, PersistedAbortions, "variety", byVariety[k].x).total = 0
               => byVariety[k].y.num = 0
     /\ \A k \in 1..Len(abortionByLocation) : RateWithinPercent(abortionByLocation[k].rate)
     /\ \A k \in 1..Len(abortionByVariety) : RateWithinPercent(abortionByVariety[k].y)

\* C19 - after a load whose reads succeeded, each location entry carries
\* total = the sum of count over the persisted blooms of that location,
\* aborted = the sum of abortedCount over the persisted abortions whose bloom
\* is at that location, and rate = aborted / total * 100; each variety entry
\* carries the rate aborted / total * 100 of its variety.
BloomsIn(field, key) ==
  {i \in 1..Len(PersistedBlooms) : PersistedBlooms[i][field] = key}

TotalIn(field, key) ==
  SumSeq([i \in 1..Len(PersistedBlooms) |->
            IF i \in BloomsIn(field, key) THEN PersistedBlooms[i].count ELSE 0])

AbortedIn(field, key) ==
  SumSeq([j \in 1..Len(PersistedAbortions) |->
            IF \E i \in BloomsIn(field, key) :
                 PersistedBlooms[i].id = PersistedAbortions[j].bloomEntryId
              THEN PersistedAbortions[j].abortedCount ELSE 0])

IsPercentOf(rate, aborted, total) == rate.num * total = aborted * 100 * rate.den

C19_GroupTotals ==
  io.read = "ok" =>
    /\ \A k \in 1..Len(abortionByLocation) :
         LET item == abortionByLocation[k]
         IN /\ item.total = TotalIn("location", item.location)
            /\ item.aborted = AbortedIn("location", item.location)
            /\ IsPercentOf(item.rate, item.aborted, item.total)
    /\ \A k \in 1..Len(abortionByVariety) :
         LET item == abortionByVariety[k]
         IN IsPercentOf(item.y, AbortedIn("variety", item.x), TotalIn("variety", item.x))

C19_Witness ==
  /\ io.read = "ok"
  /\ Len(PersistedBlooms) = 2 /\ Len(PersistedAbortions) = 2
  /\ \E k \in 1..Len(abortionByLocation) :
       /\ abortionByLocation[k].total = 10 /\ abortionByLocation[k].aborted = 3
       /\ abortionByLocation[k].rate = [num |-> 300, den |-> 10]
  /\ \E k \in 1..Len(abortionByVariety) :
       /\ abortionByVariety[k].x = "Red"
       /\ abortionByVariety[k].y = [num |-> 300, den |-> 10]
  /\ PersistedBlooms[1].location # PersistedBlooms[2].location

\* C20 - after a load whose reads succeeded, every location and every variety
\* whose total bloomed count is > 0 has an entry in its view (there are at
\* most 10 groups), groups without abortions included, no group with total 0
\* has one, and each view is in non-increasing order of rate.
C20_ViewsDropOnlyZeroTotals ==
  io.read = "ok" =>
    /\ \A i \in 1..Len(PersistedBlooms) :
         /\ (TotalIn("location", PersistedBlooms[i].location) > 0) <=>
              (\E k \in 1..Len(abortionByLocation) :
                 abortionByLocation[k].location = PersistedBlooms[i].location)
         /\ (TotalIn("variety", PersistedBlooms[i].variety) > 0) <=>
              (\E k \in 1..Len(abortionByVariety) :
                 abortionByVariety[k].x = PersistedBlooms[i].variety)
    /\ \A k, l \in 1..Len(abortionByLocation) :
         k < l => rateDiff(abortionByLocation[k].rate, abortionByLocation[l].rate) >= 0
    /\ \A k, l \in 1..Len(abortionByVariety) :
         k < l => rateDiff(abortionByVariety[k].y, abortionByVariety[l].y) >= 0

\* C21 - an abortion whose bloomEntryId matches no persisted bloom is left
\* out of the abortion analytics: the groups by location and by variety are
\* those computed with that abortion removed, and a load whose reads
\* succeeded completes and publishes exactly those views.
IsOrphan(j) ==
  \A i \in 1..Len(PersistedBlooms) :
    PersistedBlooms[i].id # PersistedAbortions[j].bloomEntryId

WithoutAbortion(j) ==
  [k \in 1..(Len(PersistedAbortions) - 1) |->
     IF k < j THEN PersistedAbortions[k] ELSE PersistedAbortions[k + 1]]

C21_OrphanAbortionsDropped ==
  \A j \in 1..Len(PersistedAbortions) :
    IsOrphan(j) =>
      /\ locationRatesAll(PersistedBlooms, PersistedAbortions)
           = locationRatesAll(PersistedBlooms, WithoutAbortion(j))
      /\ varietyRatesAll(PersistedBlooms, PersistedAbortions)
           = varietyRatesAll(PersistedBlooms, WithoutAbortion(j))
      /\ io.read = "ok" =>
           /\ analyticsLoading = FALSE
           /\ abortionByLocation = locationRates(PersistedBlooms, WithoutAbortion(j))
           /\ abortionByVariety = varietyRates(PersistedBlooms, WithoutAbortion(j))

C21_Witness ==
  /\ io.read = "ok"
  /\ Len(PersistedBlooms) = 2 /\ Len(PersistedAbortions) = 2
  /\ IsOrphan(2) /\ ~IsOrphan(1)
  /\ abortionByLocation # <<>> /\ abortionByVariety # <<>>
  /\ abortionByLocation = locationRates(PersistedBlooms, WithoutAbortion(2))
  /\ \E k \in 1..Len(abortionByLocation) : abortionByLocation[k].aborted > 0

\* C22 - getAllFarmLocations returns 392 locations: 288 of type Greenhouse,
\* 80 Trellis and 24 Double Pole, 196 in each zone, with pairwise distinct
\* identifiers; every call returns that same sequence.
CountWhere(q, Test(_)) == Cardinality({k \in 1..Len(q) : Test(q[k])})

C22_CatalogShape ==
  /\ Len(getAllFarmLocations) = 392
  /\ CountWhere(getAllFarmLocations, LAMBDA l : l.type = "Greenhouse") = 288
  /\ CountWhere(getAllFarmLocations, LAMBDA l : l.type = "Trellis") = 80
  /\ CountWhere(getAllFarmLocations, LAMBDA l : l.type = "Double Pole") = 24
  /\ CountWhere(getAllFarmLocations, LAMBDA l : l.zone = "North") = 196
  /\ CountWhere(getAllFarmLocations, LAMBDA l : l.zone = "South") = 196
  /\ Cardinality(CatalogIds) = Len(getAllFarmLocations)
  /\ \A k \in 1..Len(locationList) :
       /\ locationList[k].call = <<"getAllFarmLocations">> =>
            locationList[k].value = getAllFarmLocations
       /\ locationList[k].call = <<"getLocationsByType", "Greenhouse">> =>
            Len(locationList[k].value) = 288
       /\ locationList[k].call = <<"getLocationsByType", "Trellis">> =>
            Len(locationList[k].value) = 80
       /\ locationList[k].call = <<"getLocationsByType", "Double Pole">> =>
            Len(locationList[k].value) = 24
       /\ locationList[k].call[1] = "getLocationsByZone" =>
            Len(locationList[k].value) = 196

C22_Witness ==
  /\ locationList # <<>>
  /\ locationList[1].call = <<"getAllFarmLocations">>
  /\ Len(locationList[1].value) = 392
  /\ locationList[1].value[1].id = "N11A"
  /\ locationList[1].value[392].id = "SDPL6"

\* C23 - getLocationById(id) returns the catalog location whose id is id
\* for every catalog identifier (N11A is the North greenhouse 1, row 1,
\* pole A; NT3D the North trellis 3, section D; NDPU3 the North upper double
\* pole 3) and undefined, without throwing, for any other string.
C23_LookupById ==
  /\ getLocationById("N11A") =
       <<[id |-> "N11A", type |-> "Greenhouse", zone |-> "North",
          name |-> "North GH1 Row1 PoleA"]>>
  /\ getLocationById("NT3D") =
       <<[id |-> "NT3D", type |-> "Trellis", zone |-> "North",
          name |-> "North Trellis 3 Section D"]>>
  /\ getLocationById("NDPU3") =
       <<[id |-> "NDPU3", type |-> "Double Pole", zone |-> "North",
          name |-> "North Double Pole Upper 3"]>>
  /\ \A c \in 1..Len(locationFound) :
       LET id == locationFound[c].id
           value == locationFound[c].value
       IN IF id \in CatalogIds
            THEN /\ Len(value) = 1
                 /\ value[1].id = id
                 /\ \E k \in 1..Len(getAllFarmLocations) : getAllFarmLocations[k] = value[1]
          ELSE value = <<>>

C23_Witness ==
  /\ locationFound # <<>>
  /\ locationFound[1].id = "NDPU3"
  /\ locationFound[1].value # <<>>
  /\ locationFound[1].value[1].name = "North Double Pole Upper 3"

\* C24 - sorting the forecast list again leaves it as it is, and entries
\* that compare equal stand in the order of their blooms in the persisted
\* collection.
UnsortedForecasts ==
  SelectSeq(
    [i \in 1..Len(PersistedBlooms) |->
       forecastOf(PersistedBlooms[i], PersistedAbortions, PersistedHarvests, Today)],
    forecastFilter)

C24_SortIsIdempotentAndStable ==
  LET unsorted == UnsortedForecasts
  IN /\ forecastSort(harvestForecasts) = harvestForecasts
     /\ io.read = "ok" =>
          \A k, l \in 1..Len(harvestForecasts) :
            (/\ k < l
             /\ forecastCompare(harvestForecasts[k], harvestForecasts[l]) = 0
             /\ harvestForecasts[k] # harvestForecasts[l]) =>
              \E i, j \in 1..Len(unsorted) :
                /\ i < j
                /\ unsorted[i] = harvestForecasts[k]
                /\ unsorted[j] = harvestForecasts[l]

C24_Witness ==
  /\ io.read = "ok"
  /\ Len(harvestForecasts) = 2
  /\ harvestForecasts[1] # harvestForecasts[2]
  /\ forecastCompare(harvestForecasts[1], harvestForecasts[2]) = 0
  /\ ~harvestForecasts[1].isReadyToday
  /\ harvestForecasts[1].bloomEntry = PersistedBlooms[1]
  /\ forecastSort(harvestForecasts) = harvestForecasts

\* C25 - over the same collections and the same today, the number of
\* forecast entries that are ready today is at most the dashboard's count
\* of blooms ready to harvest today, and the two differ exactly when some
\* bloom due today has nothing remaining.
ReadyTodayCount(forecasts) == Len(SelectSeq(forecasts, LAMBDA f : f.isReadyToday))

DueTodayWithNothingLeft ==
  \E i \in 1..Len(PersistedBlooms) :
    /\ ExpectedDate(PersistedBlooms[i]) = Today
    /\ LedgerRemaining(PersistedBlooms[i]) = 0

DistinctIds(q) == \A i, j \in 1..Len(q) : i # j => q[i].id # q[j].id

C26_DistinctIds ==
  /\ DistinctIds(PersistedBlooms)
  /\ DistinctIds(PersistedAbortions)
  /\ DistinctIds(PersistedHarvests)

\* C27 - once loadDashboardData has run with every storage read succeeding,
\* the stats on display are the stats computed from the persisted
\* collections (todayBlooms, todayAbortions, upcomingHarvests,
\* totalActiveBlooms, readyToHarvestToday); the previous stats stay only
\* after a load that failed.
C27_DashboardPublishes ==
  ("index" \in mounted /\ io.read = "ok") =>
    \E part \in TimesOfDay :
      stats = computeStats(PersistedBlooms, PersistedAbortions, Today, part)

\* C28 - before the views are filtered and cut, the totals of the location
\* groups and the totals of the variety groups both add up to the sum of
\* count over the persisted blooms, and the aborted counts of the location
\* groups and of the variety groups both add up to the sum of abortedCount
\* over the abortions whose bloom exists.
GroupsBy(field) ==
  LET keys == distinctInOrder(MapCount(PersistedBlooms, field))
  IN [k \in 1..Len(keys) |->
        groupStats(PersistedBlooms, PersistedAbortions, field, keys[k])]

MatchedAborted ==
  SumSeq([j \in 1..Len(PersistedAbortions) |->
            IF IsOrphan(j) THEN 0 ELSE PersistedAbortions[j].abortedCount])

C28_GroupSumsConserved ==
  LET byLocation == locationRatesAll(PersistedBlooms, PersistedAbortions)
      bloomed == SumSeq(MapCount(PersistedBlooms, "count"))
  IN /\ SumSeq(MapCount(byLocation, "total")) = bloomed
     /\ SumSeq(MapCount(GroupsBy("location"), "total")) = bloomed
     /\ SumSeq(MapCount(GroupsBy("variety"), "total")) = bloomed
     /\ SumSeq(MapCount(byLocation, "aborted")) = MatchedAborted
     /\ SumSeq(MapCount(GroupsBy("location"), "aborted")) = MatchedAborted
     /\ SumSeq(MapCount(GroupsBy("variety"), "aborted")) = MatchedAborted
     /\ io.read = "ok" => SumSeq(MapCount(abortionByLocation, "total")) = bloomed

C28_Witness ==
  /\ io.read = "ok"
  /\ Len(PersistedBlooms) = 2 /\ Len(PersistedAbortions) = 2
  /\ PersistedBlooms[1].location = PersistedBlooms[2].location
  /\ PersistedBlooms[1].variety # PersistedBlooms[2].variety
  /\ SumSeq(MapCount(PersistedBlooms, "count")) = 20
  /\ SumSeq(MapCount(abortionByLocation, "total")) = 20
  /\ Len(GroupsBy("location")) = 1 /\ Len(GroupsBy("variety")) = 2
  /\ MatchedAborted = 14

\* C29 - updateBloomEntry(u) over a stored bloom collection leaves its
\* length and order as they are: the entry whose id is u.id becomes u, every
\* other entry stays, nothing is inserted when no entry has u.id; no step of
\* the call touches the abortions, the harvests or the settings.
Replaced(entries, u) ==
  [i \in 1..Len(entries) |-> IF entries[i].id = u.id THEN u ELSE entries[i]]

C29_UpdateReplacesInPlace ==
  [][\A s \in Slots :
       /\ (calls[s].op = "updateBloomEntry" \/ calls'[s].op = "updateBloomEntry") =>
            UNCHANGED <<abortion_entries, harvest_entries, app_settings>>
       /\ (/\ calls[s].pc = "updateSetItem" /\ calls'[s].pc = "returned"
           /\ bloom_entries.state # "corrupt") =>
            /\ bloom_entries'.state = "json"
            /\ bloom_entries'.entries = Replaced(bloom_entries.entries, calls[s].entry[1])]_vars

\* C30 - when clearAllData succeeds the three getters return the empty
\* collection and the stored settings are as before; getSettings returns
\* the stored settings with each missing field taken from the defaults
\* (Red, 26, true), and the defaults when nothing is stored or the read
\* fails.
ExpectedSettings(item, r) ==
  IF r = "ok" /\ item.state = "json"
    THEN LET stored == item.entries[1]
         IN [defaultVariety |->
               IF "defaultVariety" \in DOMAIN stored THEN stored.defaultVariety ELSE "Red",
             maturityPeriodDays |->
               IF "maturityPeriodDays" \in DOMAIN stored THEN stored.maturityPeriodDays
               ELSE 26,
             enableNotifications |->
               IF "enableNotifications" \in DOMAIN stored THEN stored.enableNotifications
               ELSE TRUE]
  ELSE [defaultVariety |-> "Red", maturityPeriodDays |-> 26, enableNotifications |-> TRUE]

C30_ClearAndSettings ==
  [][\A s \in Slots :
       /\ (calls[s].pc = "multiRemove" /\ calls'[s].pc = "returned") =>
            /\ \A r \in Outcomes :
                 /\ getBloomEntries(bloom_entries', r) = [threw |-> FALSE, value |-> <<>>]
                 /\ getAbortionEntries(abortion_entries', r)
                      = [threw |-> FALSE, value |-> <<>>]
                 /\ getHarvestEntries(harvest_entries', r)
                      = [threw |-> FALSE, value |-> <<>>]
            /\ app_settings' = app_settings
       /\ (calls[s].pc = "settingsGetItem" /\ calls'[s].pc = "returned") =>
            /\ calls'[s].value = <<ExpectedSettings(app_settings, calls'[s].read)>>
            /\ app_settings' = app_settings
       /\ (/\ calls[s].op \in GetOps /\ calls'[s].pc = "returned"
           /\ ItemAt(KeyOf(calls[s].op)) = NullItem) =>
            calls'[s].value = <<>>]_vars

C30_Witness ==
  /\ calls["a"].op = "getBloomEntries" /\ calls["a"].pc = "returned"
  /\ calls["a"].value = <<>>
  /\ bloom_entries = NullItem /\ abortion_entries = NullItem /\ harvest_entries = NullItem
  /\ app_settings = JsonItem(<<[maturityPeriodDays |-> 30]>>)
  /\ getSettings(app_settings, "ok") =
       [defaultVariety |-> "Red", maturityPeriodDays |-> 30, enableNotifications |-> TRUE]

====
